---------------------------- MODULE Spec2Model ----------------------------
(***************************************************************************)
(* HymoFS LKM control plane (userspace/ksud/src/hymo/core/lkm.cpp).        *)
(*                                                                         *)
(* The model follows lkm_load(), lkm_unload(), lkm_is_loaded() and         *)
(* lkm_autoload_post_fs_data() statement by statement.  A call is split    *)
(* into steps at the places where it touches state other processes share   *)
(* (the kernel module, the base directory), so that calls of independent   *)
(* ksud processes interleave.  The kernel, the file system and the HymoFS  *)
(* session layer (mount/hymofs.cpp, declared only) are the environment.    *)
(*                                                                         *)
(* Strings are sequences of one-character strings where the code looks     *)
(* inside them (kernel release, KMI, policy files) and sequences of words  *)
(* where it only assigns, appends and searches (the last-error string).    *)
(***************************************************************************)
EXTENDS Integers, Sequences, FiniteSets, TLC

(***************************************************************************)
(* Bounds of the model.                                                    *)
(***************************************************************************)
\* operations the interactive process starts in one behaviour.
MaxCalls == 3
\* operations each of two concurrent processes starts.
MaxConcCalls == 1
\* names mkstemp can hand out (.lkm_XXXXXX).
MaxTmp == 2
\* largest st_size of a module image, in the units read(2) hands over.
MaxImage == 3

(***************************************************************************)
(* Program constants.                                                      *)
(***************************************************************************)
\* static constexpr int HYMO_SYSCALL_NR = 142;
HYMO_SYSCALL_NR == 142
\* for (int i = 0; i < 5; ++i) in lkm_unload
UNLOAD_ATTEMPTS == 5
\* const size_t ver_start = android_pos + 8;
ANDROID_MARKER_LEN == 8

\* independent ksud processes: the interactive command and the boot autoload
Procs == {"cli", "boot"}
TmpNames == 1..MaxTmp

(***************************************************************************)
(* Character strings.                                                      *)
(***************************************************************************)
EmptyStr == << >>
\* std::string::npos, with 1-based positions
npos == 0

\* s.find(c, from): first position >= from holding character c
FindChar(s, c, from) ==
    LET hits == {i \in from..Len(s) : s[i] = c}
    IN  IF hits = {} THEN npos ELSE CHOOSE i \in hits : \A j \in hits : i <= j

\* s.find(pat): first position where pat occurs in s
FindStr(s, pat) ==
    LET hits == {i \in 1..(Len(s) - Len(pat) + 1) :
                    \A k \in 1..Len(pat) : s[i + k - 1] = pat[k]}
    IN  IF hits = {} THEN npos ELSE CHOOSE i \in hits : \A j \in hits : i <= j

\* s.substr(pos): the length argument forgotten
Substr_to_end(s, pos, n) == SubSeq(s, pos, Len(s))

\* s.substr(pos, n) with 1-based pos
Substr(s, pos, n) == SubSeq(s, pos, pos + n - 1)

AndroidMarker == <<"-", "a", "n", "d", "r", "o", "i", "d">>
AndroidPrefix == <<"a", "n", "d", "r", "o", "i", "d">>

\* the parsing part of get_current_kmi(), applied to the release string
kmi_of_release(full_version) ==
    LET dot1 == FindChar(full_version, ".", 1)
    IN  IF dot1 = npos THEN EmptyStr
        ELSE
        LET d2 == FindChar(full_version, ".", dot1 + 1)
            \* 1-based position of the second dot, or one past the end
            dot2 == IF d2 = npos THEN Len(full_version) + 1 ELSE d2
            major_minor == Substr(full_version, 1, dot2 - 1)
            android_pos == FindStr(full_version, AndroidMarker)
        IN  IF android_pos # npos
            THEN LET ver_start == android_pos + ANDROID_MARKER_LEN
                     e == FindChar(full_version, "-", ver_start)
                     ver_end == IF e = npos THEN Len(full_version) + 1 ELSE e
                     android_ver == Substr(full_version, ver_start, ver_end - ver_start)
                 IN  AndroidPrefix \o android_ver \o <<"-">> \o major_minor
            ELSE EmptyStr

\* std::getline(f, line): the characters before the first newline
FirstLine(content) ==
    LET nl == FindChar(content, "\n", 1)
    IN  IF nl = npos THEN content ELSE SubSeq(content, 1, nl - 1)

\* a file that does not exist (no content is a sequence of this shape)
NoFile == <<"no such file">>

\* read_file_first_line(path): "" when the file cannot be opened or is empty
read_file_first_line(file) ==
    IF file = NoFile THEN EmptyStr ELSE FirstLine(file)

(***************************************************************************)
(* Kernel releases, KMIs and embedded assets of the modelled device.       *)
(***************************************************************************)
\* "5.10.101-android12-9-ab1234"
RelGki ==
    <<"5", ".", "1", "0", ".", "1", "0", "1", "-", "a", "n", "d", "r", "o", "i", "d",
      "1", "2", "-", "9", "-", "a", "b", "1", "2", "3", "4">>
\* "5.10.101"
RelLegacy == <<"5", ".", "1", "0", ".", "1", "0", "1">>
\* "android12-5.10"
Kmi12_510 == <<"a", "n", "d", "r", "o", "i", "d", "1", "2", "-", "5", ".", "1", "0">>
\* "android13-5.15"
Kmi13_515 == <<"a", "n", "d", "r", "o", "i", "d", "1", "3", "-", "5", ".", "1", "5">>

\* the KMIs for which this ksud build embeds <kmi>_arm64_hymofs_lkm.ko
EmbeddedKmis == {Kmi12_510}

Dot == <<".">>
Dash == <<"-">>

\* the parts kernel releases are made of
Nums == {<<"5">>, <<"1", "0">>}
Rests == {<<"0">>, <<"1", "0", "1">>}
AndroidVers == {<<"1", "2">>, <<"1", "3">>}
Tails == {<<"9">>, <<"9", "-", "a", "b", "1", "2", "3", "4">>}

\* <major>.<minor>.<rest>-android<N>-<tail>
GkiRelease(major, minor, rest, n, tail) ==
    major \o Dot \o minor \o Dot \o rest \o AndroidMarker \o n \o Dash \o tail

GkiReleases ==
    {GkiRelease(major, minor, rest, n, tail) :
        major \in Nums, minor \in Nums, rest \in Rests, n \in AndroidVers,
        tail \in Tails}

\* "unknown"
RelUnknown == <<"u", "n", "k", "n", "o", "w", "n">>

\* releases of other shapes: no marker, no dot, a single dot, a marker
\* without version or trailing dash, a marker before the second dot, a version
\* that is no number
OddReleases ==
    {RelLegacy,
     RelUnknown,
     <<"5">> \o AndroidMarker \o <<"1", "2", "-", "9">>,
     <<"5", ".", "1", "0">> \o AndroidMarker \o <<"1", "2", "-", "9">>,
     <<"5", ".", "1", "0", ".", "1">> \o AndroidMarker,
     <<"5", ".", "1", "0", ".", "1">> \o AndroidMarker \o <<"1", "2">>,
     <<"5", ".", "1", "0", ".", "1">> \o AndroidMarker \o <<"-", "9">>,
     <<"5", ".", "1", "0", ".", "1">> \o AndroidMarker \o <<"x", "-", "9">>,
     <<"5", ".", "1", "0">> \o AndroidMarker \o <<"1", "2", ".", "3", "-", "9">>}

\* what uname(2) reports under the module's uname spoofing: "6.1.0-android14-0"
RelSpoof == GkiRelease(<<"6">>, <<"1">>, <<"0">>, <<"1", "4">>, <<"0">>)

(***************************************************************************)
(* State.                                                                  *)
(***************************************************************************)
VARIABLES
    \* kernel
    modLoaded,        \* hymofs_lkm is inserted
    hooksEnabled,     \* the module's hook-processing flag
    rules,            \* the module holds at least one active rule
    \* file system
    tmpFiles,         \* the .lkm_XXXXXX files present in HYMO_DATA_DIR
    legacyExists,     \* LKM_KO exists
    overrideFile,     \* LKM_KMI_OVERRIDE_FILE: NoFile or its content
    autoloadFile,     \* LKM_AUTOLOAD_FILE: NoFile or its content
    osrelease,        \* /proc/sys/kernel/osrelease
    uts_release,      \* what uname(2) reports as release
    \* per process
    pc,               \* where the process is in the call it runs
    g_lkm_last_error, \* static std::string g_lkm_last_error (a sequence of words)
    status_cache,     \* HymoFS status cache: "none" or a HymoFSStatus
    session_fd,       \* the process holds the HymoFS anon-fd session
    frame,            \* the locals of the running call
    obs,              \* what the running (or last) call did, for the properties
    budget,           \* operations each process may still start
    role,             \* what each process is: a "command" or the "boot" stage
    \* manager app
    manager,          \* HymoFSManager.unloadLkm(): its position, what the shell
                      \* gives it, and what it returned
    \* load_module_via_init, statement by statement
    helper            \* its position, the image file, its locals and its result

vars == <<modLoaded, hooksEnabled, rules, tmpFiles, legacyExists, overrideFile,
          autoloadFile, osrelease, uts_release, pc, g_lkm_last_error, status_cache,
          session_fd, frame, obs, budget, role, manager, helper>>

kernelVars == <<modLoaded, hooksEnabled, rules>>
policyVars == <<overrideFile, autoloadFile, osrelease, uts_release, legacyExists,
                role, manager, helper>>

\* the legacy installed image (LKM_KO), as a value of ko_path
LKM_KO == <<"LKM_KO", 0>>
\* HYMO_DATA_DIR/.lkm_XXXXXX with suffix n
TmpPath(n) == <<".lkm_", n>>
\* std::string ko_path; (empty)
NoPath == <<"", 0>>

FreshFrame == [kmi |-> EmptyStr, ko_path |-> NoPath, ok |-> FALSE, i |-> 0,
               sleeps |-> 0]

FreshObs(name, loaded) ==
    [op |-> name, ret |-> "running", loadedAtEntry |-> loaded, observed |-> FALSE,
     overlaps |-> {}, envFailure |-> FALSE, errSet |-> FALSE, arg |-> EmptyStr,
     loadSyscalls |-> 0, initCalls |-> 0, loadResult |-> "none", tmpMade |-> {},
     finitResult |-> "none", viaInit |-> 0, images |-> {}, fdOpen |-> 0,
     fdPeak |-> 0,
     inserted |-> FALSE,
     deleteAttempts |-> 0, allBusy |-> TRUE, lastDelete |-> "none",
     rmmodCalls |-> 0, rmmodStatus |-> "none", sessionAtRemoval |-> FALSE,
     steps |-> << >>, prevOp |-> "none", prevRet |-> "none", prevArg |-> EmptyStr]

\* override file and kernel release of the devices modelled: a GKI kernel
\* whose image is embedded, a kernel without Android marker, and a manual
\* override naming a KMI that is not embedded
Devices == {<<NoFile, RelGki>>, <<NoFile, RelLegacy>>, <<Kmi13_515, RelGki>>}

\* the manager app is not calling unloadLkm()
NoManager == [pc |-> "none", unload |-> "none", status |-> "none", out |-> << >>,
              ret |-> FALSE]

\* load_module_via_init is not followed statement by statement
NoHelper == [pc |-> "none", size |-> 0, available |-> 0, bytes_read |-> 0,
             fd |-> 0, called |-> FALSE, filled |-> 0, ret |-> "none"]

InitDevice ==
    /\ modLoaded \in BOOLEAN
    /\ hooksEnabled = modLoaded
    /\ rules \in (IF modLoaded THEN BOOLEAN ELSE {FALSE})
    /\ tmpFiles = {}
    /\ legacyExists \in BOOLEAN
    /\ \E d \in Devices : overrideFile = d[1] /\ osrelease = d[2]
    /\ autoloadFile \in {NoFile, <<"0">>}
    /\ uts_release = osrelease

InitProcs ==
    /\ pc = [p \in Procs |-> "idle"]
    /\ g_lkm_last_error = [p \in Procs |-> << >>]
    /\ status_cache = [p \in Procs |-> "none"]
    /\ session_fd = [p \in Procs |-> FALSE]
    /\ frame = [p \in Procs |-> FreshFrame]
    /\ obs = [p \in Procs |-> FreshObs("none", FALSE)]

\* one process running its commands one after the other
Init ==
    /\ InitDevice
    /\ InitProcs
    /\ budget = [p \in Procs |-> IF p = "cli" THEN MaxCalls ELSE 0]
    /\ role = [p \in Procs |-> IF p = "cli" THEN "command" ELSE "boot"]
    /\ manager = NoManager
    /\ helper = NoHelper

\* two independent processes, each running its commands, at the same time
InitConc ==
    /\ InitDevice
    /\ InitProcs
    /\ budget = [p \in Procs |-> MaxConcCalls]
    /\ role = [p \in Procs |-> IF p = "cli" THEN "command" ELSE "boot"]
    /\ manager = NoManager
    /\ helper = NoHelper

\* one process loading on devices of every kernel release; uname(2) reports
\* the true release or a spoofed one, and sysfs may be unreadable
InitReleases ==
    /\ modLoaded = FALSE
    /\ hooksEnabled = FALSE
    /\ rules = FALSE
    /\ tmpFiles = {}
    /\ legacyExists \in BOOLEAN
    /\ overrideFile = NoFile
    /\ autoloadFile = NoFile
    /\ osrelease \in GkiReleases \cup OddReleases \cup {NoFile}
    /\ uts_release \in {RelSpoof} \cup (IF osrelease = NoFile THEN {RelGki}
                                         ELSE {osrelease})
    /\ InitProcs
    /\ budget = [p \in Procs |-> IF p = "cli" THEN MaxCalls ELSE 0]
    /\ role = [p \in Procs |-> IF p = "cli" THEN "command" ELSE "boot"]
    /\ manager = NoManager
    /\ helper = NoHelper

\* one process on a GKI device without module, editing the policy files
\* between its loads and unloads
InitPolicy ==
    /\ modLoaded = FALSE
    /\ hooksEnabled = FALSE
    /\ rules = FALSE
    /\ tmpFiles = {}
    /\ legacyExists = FALSE
    /\ overrideFile \in {NoFile, Kmi13_515}
    /\ autoloadFile = NoFile
    /\ osrelease = RelGki
    /\ uts_release = RelGki
    /\ InitProcs
    /\ budget = [p \in Procs |-> IF p = "cli" THEN MaxCalls ELSE 0]
    /\ role = [p \in Procs |-> IF p = "cli" THEN "command" ELSE "boot"]
    /\ manager = NoManager
    /\ helper = NoHelper

\* two interactive commands, run from two shells at the same time
InitCommands ==
    /\ InitDevice
    /\ InitProcs
    /\ budget = [p \in Procs |-> MaxConcCalls]
    /\ role = [p \in Procs |-> "command"]
    /\ manager = NoManager
    /\ helper = NoHelper

(***************************************************************************)
(* HymoFS session layer (mount/hymofs.cpp; only its declarations are in    *)
(* the sources).  check_status() probes the module by opening a session    *)
(* and reading its protocol version, and memoizes the answer until         *)
(* invalidate_status_cache() is called.  The module image reports the      *)
(* protocol version the daemon expects.                                    *)
(***************************************************************************)
\* HymoFS::check_status(): the status the call returns
check_status(p) ==
    IF status_cache[p] # "none" THEN status_cache[p]
    ELSE IF modLoaded THEN "Available" ELSE "NotPresent"

\* HymoFS::is_available()
is_available(p) == check_status(p) = "Available"

\* the session a probe leaves open: a probe of a loaded module opens the anon-fd
session_after_probe(p) ==
    session_fd[p] \/ (status_cache[p] = "none" /\ modLoaded)

\* a rule-engine call acquires the session lazily; it fails when none can be had
can_acquire(p) == session_fd[p] \/ modLoaded

\* bool lkm_is_loaded() { return HymoFS::is_available(); }
lkm_is_loaded(p) == is_available(p)

\* some process holds a session, which keeps the module's reference count up
SessionHeld == \E q \in Procs : session_fd[q]

(***************************************************************************)
(* Bookkeeping of a call.                                                  *)
(***************************************************************************)
Running(q) == pc[q] # "idle"

\* a call of operation name starts in process p, having observed the module
\* loaded or not
Enter(p, name, observed) ==
    [FreshObs(name, modLoaded) EXCEPT
        !.prevOp = obs[p].op, !.prevRet = obs[p].ret, !.prevArg = obs[p].arg,
        !.observed = observed,
        !.overlaps = {obs[q].op : q \in {r \in Procs \ {p} : Running(r)}}]

\* obs once p has started a call recorded as o: the calls of the other
\* processes that are under way overlap it
Started(p, o) ==
    [q \in Procs |-> IF q = p THEN o
                     ELSE IF Running(q)
                          THEN [obs[q] EXCEPT !.overlaps = @ \cup {o.op}]
                          ELSE obs[q]]

CanCall(p) == pc[p] = "idle" /\ budget[p] > 0

\* the boot process runs the post-fs-data stage only; commands come from the
\* interactive processes
Interactive(p) == role[p] = "command"

Returned(o, value) == [o EXCEPT !.ret = value]

BoolStr(b) == IF b THEN "true" ELSE "false"

(***************************************************************************)
(* Kernel and file system, as the calls of lkm.cpp see them.               *)
(***************************************************************************)
FileExists(path) == path \in tmpFiles \/ (path = LKM_KO /\ legacyExists)

\* open(ko_path, O_RDONLY | O_CLOEXEC): "ok" or the errno it fails with
OpenOutcomes(path) == IF FileExists(path) THEN {"ok", "EACCES"} ELSE {"ENOENT"}

\* finit_module(fd, params, 0): "ok" or the errno it fails with.  A kernel
\* without the syscall answers ENOSYS; a module that is already inserted EEXIST;
\* an image the kernel rejects ENOEXEC.
FinitOutcomes == {"ENOSYS"} \cup (IF modLoaded THEN {"EEXIST"} ELSE {"ok", "ENOEXEC"})

\* init_module(image, size, params)
InitModuleOutcomes == IF modLoaded THEN {"EEXIST"} ELSE {"ok", "ENOEXEC"}

\* a fixed temp name in place of mkstemp(): every load writes the same file
FixedTmp == CHOOSE n \in TmpNames : \A m \in TmpNames : n <= m

\* mkstemp() hands out a name no file has; the names are interchangeable
FreshTmp ==
    LET free == TmpNames \ {n \in TmpNames : TmpPath(n) \in tmpFiles}
    IN  IF free = {} THEN 0 ELSE CHOOSE n \in free : \A m \in free : n <= m

\* ksud::copy_asset_to_file(asset_name, tmp_path) finds the asset embedded
AssetEmbedded(kmi) == kmi \in EmbeddedKmis

(***************************************************************************)
(* ABI resolution.                                                         *)
(***************************************************************************)
\* read_kernel_release_from_sysfs()
read_kernel_release_from_sysfs == read_file_first_line(osrelease)

\* get_current_kmi() without its reads: the KMI of the uname release, the
\* kernel-reported one ignored
current_kmi_from_uname(sysfs, uts) == kmi_of_release(uts)

\* get_current_kmi() lines 189-197 and on, given what sysfs and uname(2)
\* report: the sysfs release, the uname release when that is empty
current_kmi(sysfs, uts) ==
    LET full_version == IF sysfs = EmptyStr THEN uts ELSE sysfs
    IN  kmi_of_release(full_version)

\* get_current_kmi()
get_current_kmi == current_kmi(read_kernel_release_from_sysfs, uts_release)

\* lkm_get_kmi_override()
lkm_get_kmi_override == read_file_first_line(overrideFile)

\* lkm_load lines 270-273 without the override: the KMI is always detected
resolve_kmi_detected == get_current_kmi

\* lkm_load lines 270-273: the override wins over auto-detection
resolve_kmi ==
    LET kmi == lkm_get_kmi_override
    IN  IF kmi = EmptyStr THEN get_current_kmi ELSE kmi

\* lkm_get_autoload(): default on
lkm_get_autoload ==
    LET v == read_file_first_line(autoloadFile)
    IN  IF v = EmptyStr THEN TRUE
        ELSE v = <<"1">> \/ v = <<"o", "n">> \/ v = <<"t", "r", "u", "e">>

(***************************************************************************)
(* lkm_load()                                                              *)
(***************************************************************************)
\* a call that starts without touching the last error
kept_error(err) == err

\* set_lkm_last_error(""), the first statement of lkm_load and of lkm_unload
cleared_error(err) == << >>

\* lines 263-267: clear the last error, return at once when observed loaded
lkm_load_begin(p, name) ==
    /\ g_lkm_last_error' = [g_lkm_last_error EXCEPT ![p] = cleared_error(@)]
    /\ status_cache' = [status_cache EXCEPT ![p] = check_status(p)]
    /\ session_fd' = [session_fd EXCEPT ![p] = session_after_probe(p)]
    /\ frame' = [frame EXCEPT ![p] = FreshFrame]
    /\ IF lkm_is_loaded(p)
       THEN /\ pc' = [pc EXCEPT ![p] = "idle"]
            /\ obs' = Started(p, Returned(Enter(p, name, TRUE), "true"))
       ELSE /\ pc' = [pc EXCEPT ![p] = "load_image"]
            /\ obs' = Started(p, Enter(p, name, FALSE))
    /\ UNCHANGED <<kernelVars, policyVars, tmpFiles>>

lkm_load_enter(p) ==
    /\ CanCall(p)
    /\ Interactive(p)
    /\ budget' = [budget EXCEPT ![p] = @ - 1]
    /\ lkm_load_begin(p, "lkm_load")

\* lines 292-294 without the fs::exists test: the legacy path is taken whether
\* or not an image is installed there
chosen_ko_path_unchecked(embedded, tmp_path) ==
    IF embedded THEN tmp_path ELSE LKM_KO

\* the ko_path lines 275-294 arrive at: the extracted temp file, else the
\* legacy image when it exists, else empty
chosen_ko_path(embedded, tmp_path) ==
    IF embedded THEN tmp_path
    ELSE IF FileExists(LKM_KO) THEN LKM_KO ELSE NoPath

\* lines 283-287: the files left by the copy attempt; a failed copy unlinks
\* the temp file
after_copy(files, tmp_path, copied) ==
    IF copied THEN files ELSE files \ {tmp_path}

\* lines 269-300: resolve the KMI, extract the embedded image to a temp file,
\* fall back to the legacy path, fail when there is no image
lkm_load_image(p) ==
    /\ pc[p] = "load_image"
    /\ \E dirOk \in BOOLEAN, tmpOk \in BOOLEAN, copyOk \in BOOLEAN :
        LET kmi == resolve_kmi
            n == FreshTmp
            made == kmi # EmptyStr /\ dirOk /\ tmpOk /\ n # 0
            embedded == made /\ copyOk /\ AssetEmbedded(kmi)
            ko_path == chosen_ko_path(embedded, TmpPath(n))
            \* the directory, the temp file or the copy of an embedded asset failed
            failed == kmi # EmptyStr /\ AssetEmbedded(kmi) /\ ~embedded
        IN  /\ tmpFiles' = IF made
                           THEN after_copy(tmpFiles \cup {TmpPath(n)}, TmpPath(n), embedded)
                           ELSE tmpFiles
            /\ frame' = [frame EXCEPT ![p] = IF ko_path = NoPath THEN FreshFrame
                                              ELSE [@ EXCEPT !.kmi = kmi,
                                                             !.ko_path = ko_path]]
            /\ IF ko_path = NoPath
               THEN /\ g_lkm_last_error' = [g_lkm_last_error EXCEPT
                            ![p] = <<"no matching module found for", kmi>>]
                    /\ pc' = [pc EXCEPT ![p] = "idle"]
                    /\ obs' = [obs EXCEPT ![p] = Returned(
                            [@ EXCEPT !.tmpMade = IF made THEN {TmpPath(n)} ELSE {},
                                      !.envFailure = failed,
                                      !.errSet = TRUE],
                            "false")]
               ELSE /\ pc' = [pc EXCEPT ![p] = "load_finit"]
                    /\ obs' = [obs EXCEPT
                            ![p].tmpMade = IF made THEN {TmpPath(n)} ELSE {},
                            ![p].envFailure = failed]
                    /\ UNCHANGED g_lkm_last_error
    /\ UNCHANGED <<kernelVars, policyVars, status_cache, session_fd, budget>>

\* "hymo_syscall_nr=%d", HYMO_SYSCALL_NR
load_params == <<"hymo_syscall_nr=", HYMO_SYSCALL_NR>>

\* load_module_via_finit without the EEXIST branch of lines 114-117: a module
\* that is already present is an error like any other, as in the superseded
\* variant (lkm.hpp)
finit_verdict_superseded(result) ==
    IF result = "ok" THEN "true"
    ELSE IF result = "ENOSYS" THEN "fallback"
    ELSE "false"

\* load_module_via_finit falling back to init_module on every failure of
\* finit_module, not on ENOSYS alone
finit_verdict_fallback_on_any(result) ==
    IF result = "ok" THEN "true" ELSE "fallback"

\* load_module_via_finit lines 109-121: what the helper does with the result of
\* finit_module ("ok" or an errno): return true, return false, or fall back
finit_verdict(result) ==
    IF result = "ok" THEN "true"
    ELSE IF result = "ENOSYS" THEN "fallback"
    ELSE IF result = "EEXIST" THEN "true"
    ELSE "false"

\* load_module_via_init with the test of line 90 inverted: a zero result is
\* the failure
init_verdict_inverted(result) ==
    IF result = "ok" THEN "false" ELSE "true"

\* load_module_via_init lines 90-98
init_verdict(result) ==
    IF result = "ok" THEN "true"
    ELSE IF result = "EEXIST" THEN "true"
    ELSE "false"

\* the kernel inserts the module: hooks on, no rules
Inserted ==
    /\ modLoaded' = TRUE
    /\ hooksEnabled' = TRUE
    /\ rules' = FALSE

\* the larger of two numbers
Max(a, b) == IF a >= b THEN a ELSE b

\* the largest element of a sequence of numbers that is not empty
Peak(trace) == CHOOSE m \in {trace[k] : k \in 1..Len(trace)} :
                 \A k \in 1..Len(trace) : trace[k] <= m

\* the image fds load_module_via_finit holds after each of its statements up
\* to line 108: open (102), finit_module (107), close (108)
finit_fds(opened) ==
    IF opened # "ok" THEN <<0>> ELSE <<1, 1, 0>>

\* where load_module_via_init may fail before its syscall: nowhere, at fstat
\* (line 56), at malloc (line 64) or at read (line 73)
InitFailures == {"none", "fstat", "malloc", "read"}

\* load_module_via_init without the close(fd) of line 66: the fd stays open
\* when malloc fails
init_fds_leaky(opened, failure) ==
    IF opened # "ok" THEN <<0>>
    ELSE IF failure = "fstat" THEN <<1, 0>>
    ELSE IF failure = "malloc" THEN <<1, 1, 1>>
    ELSE IF failure = "read" THEN <<1, 1, 1, 1, 0>>
    ELSE <<1, 1, 1, 1, 0, 0>>

\* the image fds load_module_via_init holds after each of its statements:
\* open (49), fstat (56), malloc (63), the read loop (71-84), close (58, 66,
\* 78 or 85), init_module (87)
init_fds(opened, failure) ==
    IF opened # "ok" THEN <<0>>
    ELSE IF failure = "fstat" THEN <<1, 0>>
    ELSE IF failure = "malloc" THEN <<1, 1, 0>>
    ELSE IF failure = "read" THEN <<1, 1, 1, 1, 0>>
    ELSE <<1, 1, 1, 1, 0, 0>>

\* obs of a call that held `o.fdOpen` image fds and went through the helper
\* statements of trace, given ko_path and params
Helped(o, trace, ko_path, params) ==
    [o EXCEPT !.fdOpen = o.fdOpen + trace[Len(trace)],
              !.fdPeak = Max(@, o.fdOpen + Peak(trace)),
              !.images = @ \cup {<<ko_path, params>>}]

\* line 305, load_module_via_finit lines 101-122.  errno is read right after
\* close(fd), which succeeds on the image fd and leaves errno as the syscall
\* set it.
lkm_load_finit(p) ==
    /\ pc[p] = "load_finit"
    /\ \E opened \in OpenOutcomes(frame[p].ko_path) :
        LET o == Helped(obs[p], finit_fds(opened), frame[p].ko_path, load_params)
        IN
        IF opened # "ok"
        THEN /\ frame' = [frame EXCEPT ![p].ok = FALSE]
             /\ pc' = [pc EXCEPT ![p] = "load_cleanup"]
             /\ obs' = [obs EXCEPT ![p] = [o EXCEPT !.envFailure = @ \/ opened = "EACCES"]]
             /\ UNCHANGED kernelVars
        ELSE \E result \in FinitOutcomes :
             /\ IF result = "ok" THEN Inserted ELSE UNCHANGED kernelVars
             /\ obs' = [obs EXCEPT ![p] =
                            [o EXCEPT !.loadSyscalls = @ + 1,
                                      !.loadResult = result,
                                      !.finitResult = result,
                                      !.viaInit = IF finit_verdict(result) = "fallback"
                                                  THEN @ + 1 ELSE @,
                                      !.inserted = (result = "ok"),
                                      !.envFailure = @ \/ result = "ENOEXEC"]]
             /\ frame' = [frame EXCEPT ![p].ok = (finit_verdict(result) = "true")]
             /\ pc' = [pc EXCEPT ![p] = IF finit_verdict(result) = "fallback"
                                        THEN "load_init" ELSE "load_cleanup"]
    /\ UNCHANGED <<policyVars, tmpFiles, g_lkm_last_error, status_cache, session_fd,
                   budget>>

\* load_module_via_init lines 48-99, called at line 112 with the ko_path and
\* the params of the failed finit attempt: open, fstat, malloc, read the
\* image, init_module.  errno is read right after free(image), which leaves it
\* as the syscall set it.
lkm_load_init(p) ==
    /\ pc[p] = "load_init"
    /\ \E opened \in OpenOutcomes(frame[p].ko_path), failure \in InitFailures :
        LET o == Helped(obs[p], init_fds(opened, failure), frame[p].ko_path,
                        load_params)
        IN
        IF opened # "ok" \/ failure # "none"
        THEN /\ frame' = [frame EXCEPT ![p].ok = FALSE]
             /\ obs' = [obs EXCEPT ![p] =
                            [o EXCEPT !.envFailure = TRUE]]
             /\ UNCHANGED kernelVars
        ELSE \E result \in InitModuleOutcomes :
             /\ IF result = "ok" THEN Inserted ELSE UNCHANGED kernelVars
             /\ obs' = [obs EXCEPT ![p] =
                            [o EXCEPT !.loadSyscalls = @ + 1,
                                      !.initCalls = @ + 1,
                                      !.loadResult = result,
                                      !.inserted = (result = "ok"),
                                      !.envFailure = @ \/ result = "ENOEXEC"]]
             /\ frame' = [frame EXCEPT ![p].ok = (init_verdict(result) = "true")]
    /\ pc' = [pc EXCEPT ![p] = "load_cleanup"]
    /\ UNCHANGED <<policyVars, tmpFiles, g_lkm_last_error, status_cache, session_fd,
                   budget>>

\* lkm_load without the unlink of lines 308-310
cleanup_skipped(files, ko_path) == files

\* line 308 with the test left out: the image is unlinked whatever its path
unlinks_any_image(ko_path) == TRUE

\* line 308: the image is unlinked when it is not the legacy one
unlinks_image(ko_path) == ko_path # LKM_KO

\* lines 307-310: the files left by the cleanup; the legacy image is kept
after_cleanup(files, ko_path) ==
    IF unlinks_image(ko_path) THEN files \ {ko_path} ELSE files

\* lines 307-310: whether LKM_KO exists after the cleanup; unlink(ko_path)
\* removes it when ko_path is LKM_KO
legacy_after_cleanup(legacy, ko_path) ==
    IF unlinks_image(ko_path) THEN legacy /\ ko_path # LKM_KO ELSE legacy

\* the superseded lkm_load (lkm.hpp lines 143-163): when the load of the
\* extracted image failed and the legacy image exists, the legacy image is
\* loaded in the same call
retries_legacy_superseded(ok, ko_path) ==
    ~ok /\ ko_path # LKM_KO /\ FileExists(LKM_KO)

\* lines 305-312: the result of the one load_module_via_finit call is the
\* result of lkm_load; no other image is tried after it
retries_legacy(ok, ko_path) == FALSE

\* lines 307-312
lkm_load_cleanup(p) ==
    /\ pc[p] = "load_cleanup"
    /\ tmpFiles' = after_cleanup(tmpFiles, frame[p].ko_path)
    /\ legacyExists' = legacy_after_cleanup(legacyExists, frame[p].ko_path)
    /\ IF retries_legacy(frame[p].ok, frame[p].ko_path)
       THEN /\ pc' = [pc EXCEPT ![p] = "load_finit"]
            /\ frame' = [frame EXCEPT ![p].ko_path = LKM_KO]
            /\ UNCHANGED obs
       ELSE /\ obs' = [obs EXCEPT ![p] = Returned(@, BoolStr(frame[p].ok))]
            /\ pc' = [pc EXCEPT ![p] = "idle"]
            /\ frame' = [frame EXCEPT ![p] = FreshFrame]
    /\ UNCHANGED <<kernelVars, overrideFile, autoloadFile, osrelease, uts_release,
                   role, manager, helper, g_lkm_last_error, status_cache,
                   session_fd, budget>>

\* line 258 without the policy: the boot stage loads whenever the module is
\* not observed loaded
autoload_wanted_whatever_policy(p) == ~lkm_is_loaded(p)

\* line 258: lkm_get_autoload() && !lkm_is_loaded()
autoload_wanted(p) == lkm_get_autoload /\ ~lkm_is_loaded(p)

\* lkm_autoload_post_fs_data() lines 257-261
lkm_autoload_post_fs_data(p) ==
    /\ CanCall(p)
    /\ budget' = [budget EXCEPT ![p] = @ - 1]
    /\ IF autoload_wanted(p)
       THEN lkm_load_begin(p, "autoload")
       ELSE /\ status_cache' = [status_cache EXCEPT
                    ![p] = IF lkm_get_autoload THEN check_status(p) ELSE @]
            /\ session_fd' = [session_fd EXCEPT
                    ![p] = IF lkm_get_autoload THEN session_after_probe(p) ELSE @]
            /\ obs' = Started(p, Returned(
                    Enter(p, "autoload", lkm_get_autoload /\ lkm_is_loaded(p)), "void"))
            /\ UNCHANGED <<kernelVars, policyVars, tmpFiles, g_lkm_last_error,
                           frame, pc>>

(***************************************************************************)
(* lkm_unload()                                                            *)
(***************************************************************************)
\* s.find(word) != std::string::npos, on a last-error string
HasWord(s, word) == \E k \in 1..Len(s) : s[k] = word

Guidance == "(module may still be busy; stop related mounts/processes or reboot)"

\* errno values for which the blocking delete_module is retried (line 337)
is_transient_busy(e) == e = "EAGAIN" \/ e = "EBUSY"

\* delete_module("hymofs_lkm", 0): "ok" or the errno it fails with.  A module
\* with references (a session some process holds, hook calls in flight) is
\* refused with EAGAIN or EBUSY; EPERM stands for every other refusal.
DeleteOutcomes ==
    IF ~modLoaded THEN {"ENOENT"}
    ELSE {"EAGAIN", "EBUSY", "EPERM"} \cup (IF SessionHeld THEN {} ELSE {"ok"})

\* what errno may hold once strerror(), the string building and LOG_ERROR of
\* unload_module_via_syscall (lines 129-130) have run after a failure with e:
\* the logger does I/O of its own (a write to a stream that is no terminal,
\* to a busy non-blocking log socket) and nothing restores errno
LogErrnos == {"EAGAIN", "ENOTTY"}
errno_after_log(e) == {e} \cup LogErrnos

\* system("/system/bin/rmmod hymofs_lkm ..."): the wait status, -1 when the
\* shell could not be started.  rmmod exits 0 only when it removed the module.
RmmodOutcomes ==
    {-1, 256, 9} \cup (IF modLoaded /\ ~SessionHeld THEN {0} ELSE {})

WIFEXITED(rc) == rc % 128 = 0
WEXITSTATUS(rc) == (rc \div 256) % 256

\* the kernel removes the module
Removed ==
    /\ modLoaded' = FALSE
    /\ hooksEnabled' = FALSE
    /\ rules' = FALSE

Step(o, name) == [o EXCEPT !.steps = Append(@, name)]

\* lkm_unload without the early return of lines 318-320: it goes for the
\* module whatever it observed, as the superseded variant (lkm.hpp) does
unload_without_early_return(p) == FALSE

\* lines 317-320: already unloaded is not an error
unload_returns_early(p) == ~lkm_is_loaded(p)

\* lines 315-320: clear the last error; not observed loaded is success
lkm_unload_enter(p) ==
    /\ CanCall(p)
    /\ Interactive(p)
    /\ budget' = [budget EXCEPT ![p] = @ - 1]
    /\ g_lkm_last_error' = [g_lkm_last_error EXCEPT ![p] = cleared_error(@)]
    /\ status_cache' = [status_cache EXCEPT ![p] = check_status(p)]
    /\ session_fd' = [session_fd EXCEPT ![p] = session_after_probe(p)]
    /\ frame' = [frame EXCEPT ![p] = FreshFrame]
    /\ IF unload_returns_early(p)
       THEN /\ pc' = [pc EXCEPT ![p] = "idle"]
            /\ obs' = Started(p, Returned(
                    Enter(p, "lkm_unload", lkm_is_loaded(p)), "true"))
       ELSE /\ pc' = [pc EXCEPT ![p] = "unl_disable"]
            /\ obs' = Started(p, Enter(p, "lkm_unload", lkm_is_loaded(p)))
    /\ UNCHANGED <<kernelVars, policyVars, tmpFiles>>

\* lines 321-323: HymoFS::set_enabled(false), through the session
lkm_unload_disable(p) ==
    /\ pc[p] = "unl_disable"
    /\ IF is_available(p)
       THEN /\ session_fd' = [session_fd EXCEPT ![p] = can_acquire(p)]
            /\ hooksEnabled' = IF can_acquire(p) THEN FALSE ELSE hooksEnabled
            /\ obs' = [obs EXCEPT ![p] = Step(@, "set_enabled")]
            /\ pc' = [pc EXCEPT ![p] = "unl_clear"]
       ELSE /\ pc' = [pc EXCEPT ![p] = "unl_delete"]
            /\ UNCHANGED <<session_fd, hooksEnabled, obs>>
    /\ UNCHANGED <<modLoaded, rules, policyVars, tmpFiles, g_lkm_last_error,
                   status_cache, frame, budget>>

\* the last error of line 325
ClearRulesError == "failed to clear HymoFS rules before unload"

\* lines 324-326 without the set_lkm_last_error of line 325
after_clear_unrecorded(err, cleared) == err

\* lines 324-326: the last error after clear_rules() returned cleared
after_clear(err, cleared) ==
    IF cleared THEN err ELSE <<ClearRulesError>>

\* lines 324-326: HymoFS::clear_rules(); a failure is recorded and not fatal
lkm_unload_clear(p) ==
    /\ pc[p] = "unl_clear"
    /\ \E cleared \in (IF can_acquire(p) THEN BOOLEAN ELSE {FALSE}) :
        /\ session_fd' = [session_fd EXCEPT ![p] = can_acquire(p)]
        /\ rules' = IF cleared THEN FALSE ELSE rules
        /\ g_lkm_last_error' = [g_lkm_last_error EXCEPT ![p] =
                after_clear(@, cleared)]
        /\ obs' = [obs EXCEPT ![p] = [Step(@, "clear_rules") EXCEPT
                                        !.errSet = ~cleared]]
    /\ pc' = [pc EXCEPT ![p] = "unl_release"]
    /\ UNCHANGED <<modLoaded, hooksEnabled, policyVars, tmpFiles, status_cache,
                   frame, budget>>

\* lkm_unload without the release_connection() of line 329: the process goes
\* on to the wait with its session open
lkm_unload_keeps_session(p) ==
    /\ pc[p] = "unl_release"
    /\ pc' = [pc EXCEPT ![p] = "unl_wait"]
    /\ UNCHANGED <<kernelVars, policyVars, tmpFiles, g_lkm_last_error,
                   status_cache, session_fd, frame, obs, budget>>

\* line 329: HymoFS::release_connection() closes the cached anon-fd
lkm_unload_release(p) ==
    /\ pc[p] = "unl_release"
    /\ session_fd' = [session_fd EXCEPT ![p] = FALSE]
    /\ obs' = [obs EXCEPT ![p] = Step(@, "release_connection")]
    /\ pc' = [pc EXCEPT ![p] = "unl_wait"]
    /\ UNCHANGED <<kernelVars, policyVars, tmpFiles, g_lkm_last_error,
                   status_cache, frame, budget>>

\* line 330: sleep_for(120ms)
lkm_unload_wait(p) ==
    /\ pc[p] = "unl_wait"
    /\ obs' = [obs EXCEPT ![p] = Step(@, "wait")]
    /\ frame' = [frame EXCEPT ![p].sleeps = @ + 1]
    /\ pc' = [pc EXCEPT ![p] = "unl_delete"]
    /\ UNCHANGED <<kernelVars, policyVars, tmpFiles, g_lkm_last_error,
                   status_cache, session_fd, budget>>

\* the loop of lines 333-341 with a break in place of the return true of line
\* 335: a successful attempt falls through to rmmod
after_attempt_break(i, succeeded, e) ==
    IF succeeded THEN "unl_rmmod"
    ELSE IF ~is_transient_busy(e) THEN "unl_rmmod"
    ELSE IF i + 1 < UNLOAD_ATTEMPTS THEN "unl_delete" ELSE "unl_rmmod"

\* the loop of lines 333-341 with a return in place of the break of line 338:
\* an error that is not busy ends the unload without rmmod
after_attempt_abort(i, succeeded, e) ==
    IF succeeded THEN "idle"
    ELSE IF ~is_transient_busy(e) THEN "idle"
    ELSE IF i + 1 < UNLOAD_ATTEMPTS THEN "unl_delete" ELSE "unl_rmmod"

\* the loop of lines 333-341 with one turn more than UNLOAD_ATTEMPTS
after_attempt_one_more(i, succeeded, e) ==
    IF succeeded THEN "idle"
    ELSE IF ~is_transient_busy(e) THEN "unl_rmmod"
    ELSE IF i < UNLOAD_ATTEMPTS THEN "unl_delete" ELSE "unl_rmmod"

\* lines 337-340: a failed attempt that left e in errno is followed by a
\* sleep of 120 ms, unless the loop is left by the break of line 338
sleeps_after(e) == IF is_transient_busy(e) THEN 1 ELSE 0

\* lines 333-341: where lkm_unload goes after attempt number i (from 0): it
\* returns true when the attempt succeeded; after a failure that left e in
\* errno it makes the next attempt, or leaves the loop for rmmod
after_attempt(i, succeeded, e) ==
    IF succeeded THEN "idle"
    ELSE IF ~is_transient_busy(e) THEN "unl_rmmod"
    ELSE IF i + 1 < UNLOAD_ATTEMPTS THEN "unl_delete" ELSE "unl_rmmod"

\* one turn of the loop of lines 333-341 with unload_module_via_syscall
\* (lines 124-134), up to the sleep before the next attempt
lkm_unload_delete(p) ==
    /\ pc[p] = "unl_delete"
    /\ \E result \in DeleteOutcomes :
        IF result = "ok"
        THEN LET next == after_attempt(frame[p].i, TRUE, "0")
                 o == [Step(obs[p], "delete_module") EXCEPT
                                !.deleteAttempts = @ + 1,
                                !.lastDelete = "ok",
                                !.sessionAtRemoval = @ \/ session_fd[p]]
             IN
             /\ Removed
             /\ obs' = [obs EXCEPT ![p] = IF next = "idle" THEN Returned(o, "true")
                                          ELSE o]
             /\ pc' = [pc EXCEPT ![p] = next]
             /\ frame' = [frame EXCEPT ![p] = IF next = "idle" THEN FreshFrame
                                              ELSE [@ EXCEPT !.i = @ + 1]]
             /\ UNCHANGED g_lkm_last_error
        ELSE \E e \in errno_after_log(result) :
             /\ g_lkm_last_error' = [g_lkm_last_error EXCEPT ![p] =
                    <<"delete_module", "hymofs_lkm", "failed:", result>>]
             /\ obs' = [obs EXCEPT ![p] =
                            [Step(@, "delete_module") EXCEPT
                                !.deleteAttempts = @ + 1,
                                !.allBusy = @ /\ is_transient_busy(result),
                                !.errSet = TRUE,
                                !.lastDelete = result,
                                !.sessionAtRemoval = @ \/ session_fd[p]]]
             /\ frame' = [frame EXCEPT ![p].i = @ + 1,
                                       ![p].sleeps = @ + sleeps_after(e)]
             /\ pc' = [pc EXCEPT ![p] = after_attempt(frame[p].i, FALSE, e)]
             /\ UNCHANGED kernelVars
    /\ UNCHANGED <<policyVars, tmpFiles, status_cache, session_fd, budget>>

\* unload_module_via_rmmod lines 139-151: the last error a failed rmmod leaves
rmmod_error(rc) ==
    IF rc = -1 THEN <<"failed to exec", "rmmod", "for", "hymofs_lkm">>
    ELSE <<"rmmod", "hymofs_lkm", "failed,", "wait_status=", ToString(rc), "exit_code=",
           IF WIFEXITED(rc) THEN ToString(WEXITSTATUS(rc)) ELSE "signal">>

\* line 144 with the test of the exit status inverted
rmmod_status_inverted(rc) == rc # -1 /\ WIFEXITED(rc) /\ WEXITSTATUS(rc) # 0

\* unload_module_via_rmmod line 144
rmmod_succeeded(rc) == rc # -1 /\ WIFEXITED(rc) /\ WEXITSTATUS(rc) = 0

\* lines 346-349: the guidance is appended to a last error that names
\* delete_module or rmmod
with_guidance(err) ==
    IF HasWord(err, "delete_module") \/ HasWord(err, "rmmod")
    THEN Append(err, Guidance) ELSE err

\* lines 342-351 with a rollback on the failure path: before it returns false
\* the call switches the hooks on again
lkm_unload_rmmod_restoring(p) ==
    /\ pc[p] = "unl_rmmod"
    /\ \E rc \in RmmodOutcomes :
        /\ IF rmmod_succeeded(rc)
           THEN /\ Removed
                /\ UNCHANGED g_lkm_last_error
           ELSE /\ g_lkm_last_error' = [g_lkm_last_error EXCEPT
                        ![p] = with_guidance(rmmod_error(rc))]
                /\ hooksEnabled' = TRUE
                /\ UNCHANGED <<modLoaded, rules>>
        /\ obs' = [obs EXCEPT ![p] = Returned(
                        [Step(@, "rmmod") EXCEPT
                            !.rmmodCalls = @ + 1,
                            !.rmmodStatus = ToString(rc),
                            !.errSet = @ \/ ~rmmod_succeeded(rc),
                            !.sessionAtRemoval = @ \/ session_fd[p]],
                        BoolStr(rmmod_succeeded(rc)))]
    /\ pc' = [pc EXCEPT ![p] = "idle"]
    /\ frame' = [frame EXCEPT ![p] = FreshFrame]
    /\ UNCHANGED <<policyVars, tmpFiles, status_cache, session_fd, budget>>

\* lines 342-351 with unload_module_via_rmmod (lines 136-152)
lkm_unload_rmmod(p) ==
    /\ pc[p] = "unl_rmmod"
    /\ \E rc \in RmmodOutcomes :
        /\ IF rmmod_succeeded(rc)
           THEN /\ Removed
                /\ UNCHANGED g_lkm_last_error
           ELSE /\ g_lkm_last_error' = [g_lkm_last_error EXCEPT
                        ![p] = with_guidance(rmmod_error(rc))]
                /\ UNCHANGED kernelVars
        /\ obs' = [obs EXCEPT ![p] = Returned(
                        [Step(@, "rmmod") EXCEPT
                            !.rmmodCalls = @ + 1,
                            !.rmmodStatus = ToString(rc),
                            !.errSet = @ \/ ~rmmod_succeeded(rc),
                            !.sessionAtRemoval = @ \/ session_fd[p]],
                        BoolStr(rmmod_succeeded(rc)))]
    /\ pc' = [pc EXCEPT ![p] = "idle"]
    /\ frame' = [frame EXCEPT ![p] = FreshFrame]
    /\ UNCHANGED <<policyVars, tmpFiles, status_cache, session_fd, budget>>

(***************************************************************************)
(* Other things a ksud process does.                                       *)
(***************************************************************************)
\* "hymo lkm status": lkm_is_loaded()
lkm_status(p) ==
    /\ CanCall(p)
    /\ Interactive(p)
    /\ budget' = [budget EXCEPT ![p] = @ - 1]
    /\ status_cache' = [status_cache EXCEPT ![p] = check_status(p)]
    /\ session_fd' = [session_fd EXCEPT ![p] = session_after_probe(p)]
    /\ obs' = Started(p, Returned(Enter(p, "lkm_is_loaded", lkm_is_loaded(p)),
                                  BoolStr(lkm_is_loaded(p))))
    /\ UNCHANGED <<kernelVars, policyVars, tmpFiles, pc, g_lkm_last_error,
                   frame>>

\* the process ends and the next command starts a new one: the statics are
\* fresh and the kernel has closed the session fd
process_exit(p) ==
    /\ pc[p] = "idle"
    /\ obs[p].op # "none"
    /\ g_lkm_last_error' = [g_lkm_last_error EXCEPT ![p] = << >>]
    /\ status_cache' = [status_cache EXCEPT ![p] = "none"]
    /\ session_fd' = [session_fd EXCEPT ![p] = FALSE]
    /\ frame' = [frame EXCEPT ![p] = FreshFrame]
    /\ obs' = [obs EXCEPT ![p] = FreshObs("none", FALSE)]
    /\ UNCHANGED <<kernelVars, policyVars, tmpFiles, pc, budget>>

(***************************************************************************)
(* The policy files: KMI override and autoload.                            *)
(***************************************************************************)
\* the strings a caller passes to lkm_set_kmi_override(): "", "android13-5.15"
\* and "a\nb"
OverrideArgs == {EmptyStr, Kmi13_515, <<"a", "\n", "b">>}

\* how ensure_base_dir() and write_file() (lines 163-178) may end: written; the
\* directory could not be made; the stream could not be opened; the stream went
\* bad while the content was put in; or the content stayed in the stream's
\* buffer, f.good() was read true, and the write at the stream's destruction
\* failed
WriteOutcomes == {"ok", "no_dir", "open_failed", "write_failed", "flush_failed"}

\* the file such a call leaves: std::ofstream truncates the file it opens
written_file(file, content, outcome) ==
    IF outcome = "ok" THEN content
    ELSE IF outcome \in {"write_failed", "flush_failed"} THEN EmptyStr
    ELSE file

\* what the call returns: f.good() of line 168, false before that on the paths
\* of lines 246-247 and 165-166
write_returns(outcome) == outcome \in {"ok", "flush_failed"}

\* the locals and statics a policy call leaves alone
policyFrame == <<kernelVars, tmpFiles, legacyExists, osrelease, uts_release, role,
                 manager, helper,
                 pc, g_lkm_last_error, status_cache, session_fd, frame>>

\* a policy call of p, with argument arg, that returned ret
PolicyCall(p, name, arg, ret) ==
    Started(p, Returned([Enter(p, name, FALSE) EXCEPT !.arg = arg], BoolStr(ret)))

\* lkm_set_kmi_override(kmi) lines 245-249
lkm_set_kmi_override(p) ==
    /\ CanCall(p)
    /\ Interactive(p)
    /\ budget' = [budget EXCEPT ![p] = @ - 1]
    /\ \E kmi \in OverrideArgs, outcome \in WriteOutcomes :
        /\ overrideFile' = written_file(overrideFile, kmi, outcome)
        /\ obs' = PolicyCall(p, "lkm_set_kmi_override", kmi, write_returns(outcome))
    /\ UNCHANGED <<policyFrame, autoloadFile>>

\* unlink(LKM_KMI_OVERRIDE_FILE): "ok" or the errno it fails with
UnlinkOutcomes(file) == IF file = NoFile THEN {"ENOENT"} ELSE {"ok", "EACCES"}

\* lkm_clear_kmi_override with the test of line 254 left out: only a file
\* that was removed is success
clear_returns_strict(result) == result = "ok"

\* lkm_clear_kmi_override lines 252-254: a file that is not there is success
clear_returns(result) == result = "ok" \/ result = "ENOENT"

\* lkm_clear_kmi_override() lines 251-255
lkm_clear_kmi_override(p) ==
    /\ CanCall(p)
    /\ Interactive(p)
    /\ budget' = [budget EXCEPT ![p] = @ - 1]
    /\ \E result \in UnlinkOutcomes(overrideFile) :
        /\ overrideFile' = IF result = "ok" THEN NoFile ELSE overrideFile
        /\ obs' = PolicyCall(p, "lkm_clear_kmi_override", EmptyStr,
                             clear_returns(result))
    /\ UNCHANGED <<policyFrame, autoloadFile>>

\* lkm_set_autoload writing to LKM_KMI_OVERRIDE_FILE, not to LKM_AUTOLOAD_FILE
lkm_set_autoload_other_file(p) ==
    /\ CanCall(p)
    /\ Interactive(p)
    /\ budget' = [budget EXCEPT ![p] = @ - 1]
    /\ \E on \in BOOLEAN, outcome \in WriteOutcomes :
        LET content == IF on THEN <<"1">> ELSE <<"0">>
        IN  /\ overrideFile' = written_file(overrideFile, content, outcome)
            /\ obs' = PolicyCall(p, "lkm_set_autoload", content, write_returns(outcome))
    /\ UNCHANGED <<policyFrame, autoloadFile>>

\* lkm_set_autoload(on) lines 353-357
lkm_set_autoload(p) ==
    /\ CanCall(p)
    /\ Interactive(p)
    /\ budget' = [budget EXCEPT ![p] = @ - 1]
    /\ \E on \in BOOLEAN, outcome \in WriteOutcomes :
        LET content == IF on THEN <<"1">> ELSE <<"0">>
        IN  /\ autoloadFile' = written_file(autoloadFile, content, outcome)
            /\ obs' = PolicyCall(p, "lkm_set_autoload", content, write_returns(outcome))
    /\ UNCHANGED <<policyFrame, overrideFile>>

Next ==
    \E p \in Procs :
        \/ lkm_load_enter(p)
        \/ lkm_load_image(p)
        \/ lkm_load_finit(p)
        \/ lkm_load_init(p)
        \/ lkm_load_cleanup(p)
        \/ lkm_autoload_post_fs_data(p)
        \/ lkm_unload_enter(p)
        \/ lkm_unload_disable(p)
        \/ lkm_unload_clear(p)
        \/ lkm_unload_release(p)
        \/ lkm_unload_wait(p)
        \/ lkm_unload_delete(p)
        \/ lkm_unload_rmmod(p)
        \/ lkm_status(p)
        \/ process_exit(p)

Spec == Init /\ [][Next]_vars

SpecConc == InitConc /\ [][Next]_vars

SpecCommands == InitCommands /\ [][Next]_vars

SpecReleases == InitReleases /\ [][Next]_vars

\* a step of a lkm_unload() call of p that is under way
lkm_unload_step(p) ==
    \/ lkm_unload_disable(p)
    \/ lkm_unload_clear(p)
    \/ lkm_unload_release(p)
    \/ lkm_unload_wait(p)
    \/ lkm_unload_delete(p)
    \/ lkm_unload_rmmod(p)

\* as Spec, with every call the session layer, the kernel and rmmod are asked
\* to serve returning: a lkm_unload() under way takes its next step
SpecReturning ==
    Init /\ [][Next]_vars /\ \A p \in Procs : WF_vars(lkm_unload_step(p))

\* the commands of lkm.cpp together with those that edit the policy files
NextPolicy ==
    \/ Next
    \/ \E p \in Procs :
        \/ lkm_set_kmi_override(p)
        \/ lkm_clear_kmi_override(p)
        \/ lkm_set_autoload(p)

SpecPolicy == InitPolicy /\ [][NextPolicy]_vars

(***************************************************************************)
(* The manager app: HymoFSManager.unloadLkm() (HymoFSManager.kt lines      *)
(* 751-782).  It runs "ksud hymo lkm unload" in a root shell and, when     *)
(* that fails, "ksud hymo lkm status", whose output it parses as a JSON    *)
(* object.  The two commands are the shell's to run: how each ends and     *)
(* what the status command prints are inputs of the call.                  *)
(***************************************************************************)
\* how Shell.cmd(...).exec() ends: exit code 0, another exit code, or an
\* exception (no root shell)
ExecOutcomes == {"success", "failure", "throws"}

\* the tokens of a JSON text
Punct(c) == [t |-> "punct", v |-> c]
Str(w) == [t |-> "str", v |-> w]
Lit(w) == [t |-> "lit", v |-> w]
LBrace == Punct("{")
RBrace == Punct("}")
Colon == Punct(":")
Comma == Punct(",")

\* what "hymo lkm status" may print, as tokens
StatusLoaded == <<LBrace, Str("loaded"), Colon, Lit("true"), RBrace>>
StatusUnloaded == <<LBrace, Str("loaded"), Colon, Lit("false"), RBrace>>
StatusUnloadedMore ==
    <<LBrace, Str("autoload"), Colon, Lit("true"), Comma,
      Str("loaded"), Colon, Lit("false"), RBrace>>
StatusUnloadedAsString == <<LBrace, Str("loaded"), Colon, Str("False"), RBrace>>
StatusNoKey == <<LBrace, Str("autoload"), Colon, Lit("true"), RBrace>>
StatusEmptyObject == <<LBrace, RBrace>>
StatusNumber == <<LBrace, Str("loaded"), Colon, Lit("0"), RBrace>>
StatusNull == <<LBrace, Str("loaded"), Colon, Lit("null"), RBrace>>
StatusOtherString == <<LBrace, Str("loaded"), Colon, Str("no"), RBrace>>
StatusNothing == << >>
StatusCutShort == <<LBrace, Str("loaded"), Colon, Lit("false")>>
StatusPlainText == <<Lit("unloaded")>>

StatusTexts ==
    {StatusLoaded, StatusUnloaded, StatusUnloadedMore, StatusUnloadedAsString,
     StatusNoKey, StatusEmptyObject, StatusNumber, StatusNull, StatusOtherString,
     StatusNothing, StatusCutShort, StatusPlainText}

\* JSONObject(String) threw a JSONException
Thrown == [ok |-> FALSE, members |-> {}]

\* the members between the braces: name : value, separated by commas
RECURSIVE Members(_)
Members(m) ==
    IF m = << >> THEN [ok |-> TRUE, members |-> {}]
    ELSE IF Len(m) < 3 \/ m[1].t # "str" \/ m[2] # Colon \/ m[3].t = "punct"
    THEN Thrown
    ELSE IF Len(m) = 3 THEN [ok |-> TRUE, members |-> {<<m[1].v, m[3]>>}]
    ELSE IF Len(m) = 4 \/ m[4] # Comma THEN Thrown
    ELSE LET rest == Members(SubSeq(m, 5, Len(m)))
         IN  IF rest.ok
             THEN [ok |-> TRUE, members |-> rest.members \cup {<<m[1].v, m[3]>>}]
             ELSE Thrown

\* line 770: JSONObject(statusResult.out.joinToString("\n"))
JSONObject(text) ==
    IF Len(text) < 2 \/ text[1] # LBrace \/ text[Len(text)] # RBrace
    THEN Thrown
    ELSE Members(SubSeq(text, 2, Len(text) - 1))

\* the spellings String.equalsIgnoreCase takes for a word
Spellings(w) ==
    IF w = "true" THEN {"true", "True", "TRUE"}
    ELSE IF w = "false" THEN {"false", "False", "FALSE"}
    ELSE {w}

\* optBoolean's coercion: a JSON boolean, or a string that spells one
toBoolean(value) ==
    IF value.t = "lit" /\ value.v \in {"true", "false"} THEN value.v
    ELSE IF value.t = "str" /\ value.v \in Spellings("true") THEN "true"
    ELSE IF value.t = "str" /\ value.v \in Spellings("false") THEN "false"
    ELSE "null"

\* JSONObject.optBoolean(name, fallback)
optBoolean(object, name, fallback) ==
    LET found == {m \in object.members : m[1] = name}
    IN  IF found = {} THEN fallback
        ELSE LET b == toBoolean((CHOOSE m \in found : TRUE)[2])
             IN  IF b = "null" THEN fallback ELSE b = "true"

\* line 771 with false as the fallback: a status without the key counts as
\* unloaded
status_shows_unloaded_by_default(object) == ~optBoolean(object, "loaded", FALSE)

\* line 771: !statusJson.optBoolean("loaded", true)
status_shows_unloaded(object) == ~optBoolean(object, "loaded", TRUE)

\* everything but the manager
ksudVars == <<kernelVars, tmpFiles, legacyExists, overrideFile, autoloadFile,
              osrelease, uts_release, role, pc, g_lkm_last_error, status_cache,
              session_fd, frame, obs, budget, helper>>

\* unloadLkm() returns value
ManagerReturns(value) == manager' = [manager EXCEPT !.pc = "returned", !.ret = value]

\* lines 752-761 and 777-781: the unload command; its success is the result,
\* an exception is false, a failure goes on to the status query
unloadLkm_exec_unload ==
    /\ manager.pc = "start"
    /\ IF manager.unload = "throws" THEN ManagerReturns(FALSE)
       ELSE IF manager.unload = "success" THEN ManagerReturns(TRUE)
       ELSE manager' = [manager EXCEPT !.pc = "status"]
    /\ UNCHANGED ksudVars

\* lines 768-769 and 777-781: the status command
unloadLkm_exec_status ==
    /\ manager.pc = "status"
    /\ IF manager.status = "success"
       THEN manager' = [manager EXCEPT !.pc = "parse"]
       ELSE ManagerReturns(FALSE)
    /\ UNCHANGED ksudVars

\* lines 770-781: the status output is parsed; loaded = false makes the call
\* a success, a JSONException is caught at line 778
unloadLkm_parse_status ==
    /\ manager.pc = "parse"
    /\ LET statusJson == JSONObject(manager.out)
       IN  IF ~statusJson.ok THEN ManagerReturns(FALSE)
           ELSE ManagerReturns(status_shows_unloaded(statusJson))
    /\ UNCHANGED ksudVars

\* a call of unloadLkm() for every way the two commands may end and every
\* status output
InitManager ==
    /\ modLoaded = TRUE
    /\ hooksEnabled = TRUE
    /\ rules = FALSE
    /\ tmpFiles = {}
    /\ legacyExists = FALSE
    /\ overrideFile = NoFile
    /\ autoloadFile = NoFile
    /\ osrelease = RelGki
    /\ uts_release = RelGki
    /\ InitProcs
    /\ budget = [p \in Procs |-> 0]
    /\ role = [p \in Procs |-> "command"]
    /\ manager \in [pc : {"start"}, unload : ExecOutcomes, status : ExecOutcomes,
                    out : StatusTexts, ret : {FALSE}]
    /\ helper = NoHelper

NextManager ==
    \/ unloadLkm_exec_unload
    \/ unloadLkm_exec_status
    \/ unloadLkm_parse_status

SpecManager == InitManager /\ [][NextManager]_vars

(***************************************************************************)
(* load_module_via_init (lkm.cpp lines 48-99) statement by statement, with *)
(* the image file as read(2) sees it: fstat reports st_size = size, and    *)
(* the file holds `available` units when it is read; it holds fewer than   *)
(* size when it was cut after the fstat.                                   *)
(***************************************************************************)
\* everything but the helper
callerVars == <<tmpFiles, legacyExists, overrideFile, autoloadFile, osrelease,
                uts_release, role, pc, g_lkm_last_error, status_cache, session_fd,
                frame, obs, budget, manager>>

\* the helper returns value with its fd closed
HelperReturns(value) ==
    helper' = [helper EXCEPT !.pc = "returned", !.fd = 0, !.ret = value]

\* lines 49-53: open(ko_path, O_RDONLY | O_CLOEXEC)
load_module_via_init_open ==
    /\ helper.pc = "open"
    /\ \E opened \in {"ok", "EACCES"} :
        IF opened = "ok"
        THEN helper' = [helper EXCEPT !.pc = "fstat", !.fd = 1]
        ELSE HelperReturns("false")
    /\ UNCHANGED <<kernelVars, callerVars>>

\* lines 55-60: fstat(fd, &st)
load_module_via_init_fstat ==
    /\ helper.pc = "fstat"
    /\ \E failed \in BOOLEAN :
        IF failed THEN HelperReturns("false")
        ELSE helper' = [helper EXCEPT !.pc = "malloc"]
    /\ UNCHANGED <<kernelVars, callerVars>>

\* lines 62-70: malloc(size), bytes_read = 0
load_module_via_init_malloc ==
    /\ helper.pc = "malloc"
    /\ \E failed \in BOOLEAN :
        IF failed THEN HelperReturns("false")
        ELSE helper' = [helper EXCEPT !.pc = "read", !.bytes_read = 0]
    /\ UNCHANGED <<kernelVars, callerVars>>

\* what read(fd, image + bytes_read, size - bytes_read) may return: an error,
\* 0 at the end of the file, or some of the units asked for that the file
\* holds past bytes_read
ReadResults(bytes_read, size, available) ==
    [r : {-1}, errno : {"EINTR", "EIO"}]
    \cup [r : (IF available <= bytes_read THEN {0}
               ELSE 1..(IF available < size THEN available - bytes_read
                        ELSE size - bytes_read)),
          errno : {"none"}]

\* lines 71-85: one turn of the read loop, or its end; the loop is left when
\* bytes_read reaches size and at the break of line 82, and close(fd) follows
load_module_via_init_read ==
    /\ helper.pc = "read"
    /\ IF helper.bytes_read < helper.size
       THEN \E got \in ReadResults(helper.bytes_read, helper.size,
                                    helper.available) :
                IF got.r < 0
                THEN IF got.errno = "EINTR" THEN UNCHANGED helper
                     ELSE HelperReturns("false")
                ELSE IF got.r = 0
                THEN helper' = [helper EXCEPT !.pc = "init", !.fd = 0]
                ELSE helper' = [helper EXCEPT !.bytes_read = @ + got.r]
       ELSE helper' = [helper EXCEPT !.pc = "init", !.fd = 0]
    /\ UNCHANGED <<kernelVars, callerVars>>

\* lines 87-98: init_module(image, size, params), free(image), the verdict
load_module_via_init_call ==
    /\ helper.pc = "init"
    /\ \E result \in InitModuleOutcomes :
        /\ IF result = "ok" THEN Inserted ELSE UNCHANGED kernelVars
        /\ helper' = [helper EXCEPT !.pc = "returned",
                                    !.called = TRUE,
                                    !.filled = helper.bytes_read,
                                    !.ret = init_verdict(result)]
    /\ UNCHANGED callerVars

\* the helper is entered for an image of every size up to MaxImage, whole
\* or cut, with the module loaded or not
InitHelper ==
    /\ modLoaded \in BOOLEAN
    /\ hooksEnabled = modLoaded
    /\ rules = FALSE
    /\ tmpFiles = {}
    /\ legacyExists = TRUE
    /\ overrideFile = NoFile
    /\ autoloadFile = NoFile
    /\ osrelease = RelGki
    /\ uts_release = RelGki
    /\ InitProcs
    /\ budget = [p \in Procs |-> 0]
    /\ role = [p \in Procs |-> "command"]
    /\ manager = NoManager
    /\ \E size \in 0..MaxImage, available \in 0..MaxImage :
        helper = [NoHelper EXCEPT !.pc = "open", !.size = size,
                                  !.available = available, !.ret = "running"]

NextHelper ==
    \/ load_module_via_init_open
    \/ load_module_via_init_fstat
    \/ load_module_via_init_malloc
    \/ load_module_via_init_read
    \/ load_module_via_init_call

SpecHelper == InitHelper /\ [][NextHelper]_vars

(***************************************************************************)
(* Properties.                                                             *)
(***************************************************************************)
\* the call p last started has returned
Done(p) == pc[p] = "idle" /\ obs[p].ret # "running"

\* the last call of p ran lkm_load(), directly or from the autoload stage
RanLoad(p) ==
    \/ obs[p].op = "lkm_load"
    \/ obs[p].op = "autoload" /\ obs[p].ret # "void"

\* p is inside lkm_load() with an image path chosen
InLoad(p) == pc[p] \in {"load_finit", "load_init", "load_cleanup"}

\* C1 (load idempotence): when lkm_load() is called twice in immediate
\* succession by one process, the first call returned success and the module
\* is loaded when the second call starts, the second call issues no
\* finit_module or init_module, creates no temp file and returns success.
C1_SecondLoadDoesNothing ==
    \A p \in Procs :
        (/\ obs[p].op = "lkm_load"
         /\ obs[p].prevOp = "lkm_load"
         /\ obs[p].prevRet = "true"
         /\ obs[p].loadedAtEntry)
        => /\ obs[p].loadSyscalls = 0
           /\ obs[p].tmpMade = {}
           /\ Done(p) => obs[p].ret = "true"

\* C2 (unload idempotence): a call of lkm_unload() that does not observe the
\* module loaded returns success at once: no quiescence step, no delete_module
\* attempt and no rmmod.
C2_UnloadNotLoadedIsSuccess ==
    \A p \in Procs :
        (obs[p].op = "lkm_unload" /\ ~obs[p].observed)
        => /\ Done(p)
           /\ obs[p].ret = "true"
           /\ obs[p].steps = << >>
           /\ obs[p].deleteAttempts = 0
           /\ obs[p].rmmodCalls = 0

\* lkm_unload() called a second time in a row, the module not observed loaded
C2_Witness ==
    \E p \in Procs :
        /\ obs[p].op = "lkm_unload"
        /\ obs[p].prevOp = "lkm_unload"
        /\ ~obs[p].observed
        /\ obs[p].ret = "true"

\* C3 (unload retry): when the delete_module attempts of one lkm_unload() fail
\* busy (EAGAIN or EBUSY) on attempts 1..k-1 and attempt k <= 5 succeeds, the
\* call returns success and rmmod is not invoked.
C3_RetryThenSuccess ==
    \A p \in Procs :
        (/\ obs[p].op = "lkm_unload"
         /\ obs[p].lastDelete = "ok"
         /\ obs[p].allBusy
         /\ obs[p].deleteAttempts \in 1..UNLOAD_ATTEMPTS)
        => /\ Done(p)
           /\ obs[p].ret = "true"
           /\ obs[p].rmmodCalls = 0
           /\ ~modLoaded

\* four busy failures, then success on the fifth attempt
C3_Witness ==
    \E p \in Procs :
        /\ obs[p].op = "lkm_unload"
        /\ obs[p].deleteAttempts = UNLOAD_ATTEMPTS
        /\ obs[p].allBusy
        /\ obs[p].lastDelete = "ok"
        /\ obs[p].ret = "true"

\* C4 (unload retry bound): one lkm_unload() makes at most 5 delete_module
\* attempts, and goes on to a further attempt only when the attempt before
\* failed with EAGAIN or EBUSY: never after a failure with another error.
C4_RetryOnlyAfterBusy ==
    \A p \in Procs :
        obs[p].op = "lkm_unload"
        => /\ obs[p].deleteAttempts <= UNLOAD_ATTEMPTS
           /\ (pc[p] = "unl_delete" /\ obs[p].deleteAttempts >= 1)
              => is_transient_busy(obs[p].lastDelete)

\* C5 (unload escalation, success): when all 5 delete_module attempts failed
\* busy, rmmod is invoked, and when it exits with status 0 lkm_unload()
\* returns success.
C5_EscalationSuccess ==
    \A p \in Procs :
        (/\ obs[p].op = "lkm_unload"
         /\ obs[p].deleteAttempts = UNLOAD_ATTEMPTS
         /\ obs[p].allBusy
         /\ obs[p].lastDelete # "ok")
        => /\ pc[p] = "unl_rmmod" \/ obs[p].rmmodCalls = 1
           /\ obs[p].rmmodStatus = "0" => Done(p) /\ obs[p].ret = "true"

\* five busy failures and an rmmod that exits 0
C5_Witness ==
    \E p \in Procs :
        /\ obs[p].op = "lkm_unload"
        /\ obs[p].deleteAttempts = UNLOAD_ATTEMPTS
        /\ obs[p].allBusy
        /\ obs[p].lastDelete # "ok"
        /\ obs[p].rmmodStatus = "0"
        /\ obs[p].ret = "true"

\* C6 (unload escalation, failure): when lkm_unload() returns failure after
\* failed delete_module attempts and a failed rmmod, the last-error string holds
\* the delete_module error detail, the rmmod detail and the guidance text.
C6_BothDetailsInLastError ==
    \A p \in Procs :
        (/\ obs[p].op = "lkm_unload"
         /\ Done(p)
         /\ obs[p].ret = "false"
         /\ obs[p].deleteAttempts >= 1
         /\ obs[p].rmmodCalls = 1)
        => /\ HasWord(g_lkm_last_error[p], "delete_module")
           /\ HasWord(g_lkm_last_error[p], "rmmod")
           /\ HasWord(g_lkm_last_error[p], Guidance)

\* the quiescence sequence of lkm_unload, lines 321-330
Quiescence == <<"set_enabled", "clear_rules", "release_connection", "wait">>

\* C7 (quiescence ordering): an lkm_unload() that observes the module loaded
\* disables the hooks, clears the rules, releases the session and waits, in
\* this order, before its first delete_module attempt, and holds no session at
\* any delete_module attempt nor at the rmmod invocation.
C7_QuiescenceBeforeRemoval ==
    \A p \in Procs :
        (obs[p].op = "lkm_unload" /\ obs[p].observed)
        => /\ \A k \in 1..Len(obs[p].steps) :
                IF k <= Len(Quiescence)
                THEN obs[p].steps[k] = Quiescence[k]
                ELSE obs[p].steps[k] \in {"delete_module", "rmmod"}
           /\ ~obs[p].sessionAtRemoval
           /\ pc[p] \in {"unl_delete", "unl_rmmod"} => ~session_fd[p]
           /\ Done(p) => Len(obs[p].steps) > Len(Quiescence)

\* an unload that went through the quiescence sequence, several delete_module
\* attempts and rmmod
C7_Witness ==
    \E p \in Procs :
        /\ obs[p].op = "lkm_unload"
        /\ obs[p].observed
        /\ Done(p)
        /\ obs[p].deleteAttempts >= 2
        /\ obs[p].rmmodCalls = 1
        /\ SubSeq(obs[p].steps, 1, Len(Quiescence)) = Quiescence

\* C8 (temp image cleanup): every .lkm_XXXXXX file present belongs to a
\* lkm_load() that has not returned yet; once a call has returned, on whatever
\* path, no temp file it created remains.
C8_TempFilesOwned ==
    /\ \A f \in tmpFiles : \E p \in Procs : InLoad(p) /\ frame[p].ko_path = f
    /\ (\A p \in Procs : pc[p] = "idle") => tmpFiles = {}

\* a load that extracted the image, fell back to init_module, failed and
\* returned
C8_Witness ==
    \E p \in Procs :
        /\ RanLoad(p)
        /\ Done(p)
        /\ obs[p].tmpMade # {}
        /\ obs[p].initCalls = 1
        /\ obs[p].ret = "false"

\* C9 (duplicate load is success): when finit_module, or init_module on the
\* fallback path, fails with EEXIST, lkm_load() returns success.
C9_DuplicateLoadIsSuccess ==
    \A p \in Procs :
        (RanLoad(p) /\ Done(p) /\ obs[p].loadResult = "EEXIST")
        => obs[p].ret = "true"

\* finit_module answered ENOSYS and init_module EEXIST
C9_Witness ==
    \E p \in Procs :
        /\ RanLoad(p)
        /\ Done(p)
        /\ obs[p].loadResult = "EEXIST"
        /\ obs[p].initCalls = 1
        /\ obs[p].ret = "true"

\* an image this device can load is at hand: embedded for the resolved KMI, or
\* installed at the legacy path
Loadable == AssetEmbedded(resolve_kmi) \/ legacyExists

\* the last call of p ran lkm_load() while a load of another process was
\* under way and no unload was, and nothing in its environment failed
LoadedConcurrently(p) ==
    /\ RanLoad(p)
    /\ Done(p)
    /\ obs[p].overlaps \cap {"lkm_load", "autoload"} # {}
    /\ "lkm_unload" \notin obs[p].overlaps
    /\ ~obs[p].envFailure

Inserters == {p \in Procs : obs[p].inserted}

\* C10 (concurrent loads): two loads in progress never use the same temp
\* file; and when the loads of the two processes overlapped, with a loadable
\* image, both return success, the module is loaded, at most one of the two
\* inserted it, and no temp file remains.
C10_ConcurrentLoads ==
    /\ \A p, q \in Procs :
        (p # q /\ InLoad(p) /\ InLoad(q) /\ frame[p].ko_path # LKM_KO)
        => frame[p].ko_path # frame[q].ko_path
    /\ (Loadable /\ \A p \in Procs : LoadedConcurrently(p))
       => /\ \A p \in Procs : obs[p].ret = "true"
          /\ modLoaded
          /\ Cardinality(Inserters) <= 1
          /\ tmpFiles = {}

\* both processes extracted the image and issued the load syscall while the
\* other was loading; one inserted the module
C10_Witness ==
    /\ \A p \in Procs : /\ LoadedConcurrently(p)
                        /\ obs[p].tmpMade # {}
                        /\ obs[p].loadSyscalls >= 1
                        /\ obs[p].ret = "true"
    /\ Cardinality(Inserters) = 1
    /\ tmpFiles = {}

\* C11 (already-unloaded is success): when a delete_module attempt of an
\* lkm_unload() that observed the module loaded fails because the module is
\* already gone (ENOENT), the call returns success.
C11_AlreadyGoneIsSuccess ==
    \A p \in Procs :
        (/\ obs[p].op = "lkm_unload"
         /\ obs[p].observed
         /\ Done(p)
         /\ obs[p].lastDelete = "ENOENT")
        => obs[p].ret = "true"

\* the last call of p was lkm_load() or lkm_unload()
RanLoadOrUnload(p) == RanLoad(p) \/ obs[p].op = "lkm_unload"

\* C12 (last-error on failure): whenever lkm_load() or lkm_unload() has
\* returned failure, the last-error string is not empty.
C12_FailureLeavesLastError ==
    \A p \in Procs :
        (RanLoadOrUnload(p) /\ Done(p) /\ obs[p].ret = "false")
        => g_lkm_last_error[p] # << >>

\* C13 (last-error reset): during and after a call of lkm_load() or
\* lkm_unload() the last-error string is empty or was written by that call:
\* it never holds the text of an earlier call.
C13_LastErrorIsOfThisCall ==
    \A p \in Procs :
        (RanLoadOrUnload(p) /\ g_lkm_last_error[p] # << >>) => obs[p].errSet

\* a load that succeeds right after an unload that failed and left its error
C13_Witness ==
    \E p \in Procs :
        /\ obs[p].op = "lkm_load"
        /\ obs[p].prevOp = "lkm_unload"
        /\ obs[p].prevRet = "false"
        /\ Done(p)
        /\ obs[p].ret = "true"
        /\ g_lkm_last_error[p] = << >>

\* C14 (status invalidation on load): once lkm_load() has inserted the module
\* and returned success, the process no longer has NotPresent cached, and the
\* next lkm_is_loaded() of the process reports the loaded module as loaded.
C14_LoadInvalidatesStatus ==
    \A p \in Procs :
        /\ (RanLoad(p) /\ Done(p) /\ obs[p].ret = "true" /\ obs[p].inserted)
           => status_cache[p] # "NotPresent"
        /\ (/\ obs[p].op = "lkm_is_loaded"
            /\ obs[p].prevOp \in {"lkm_load", "autoload"}
            /\ obs[p].prevRet = "true"
            /\ obs[p].loadedAtEntry)
           => obs[p].ret = "true"

\* C15 (observed state after unload): after an lkm_unload() that returned
\* success and left the module removed, the next lkm_is_loaded() of the
\* process reports not loaded and the next lkm_load() does not take the module
\* for loaded.
C15_UnloadIsObserved ==
    \A p \in Procs :
        (/\ obs[p].prevOp = "lkm_unload"
         /\ obs[p].prevRet = "true"
         /\ ~obs[p].loadedAtEntry)
        => /\ obs[p].op = "lkm_is_loaded" => obs[p].ret = "false"
           /\ obs[p].op = "lkm_load" => ~obs[p].observed

HasMarker(s) ==
    \E i \in 1..(Len(s) - Len(AndroidMarker) + 1) :
        SubSeq(s, i, i + Len(AndroidMarker) - 1) = AndroidMarker

NoDot(s) == \A i \in 1..Len(s) : s[i] # "."

\* android<N>-<major>.<minor>
KmiOf(n, major, minor) == AndroidPrefix \o n \o Dash \o major \o Dot \o minor

\* C17 (ABI parsing): when the kernel reports a release of the shape
\* <major>.<minor>.<rest>-android<N>-<tail>, get_current_kmi() is
\* android<N>-<major>.<minor> and a load in progress has resolved that KMI;
\* when the reported release has no "-android" marker, it is the empty string.
C17_GkiReleaseParses ==
    LET sysfs == read_kernel_release_from_sysfs
    IN  /\ \A major \in Nums, minor \in Nums, rest \in Rests, n \in AndroidVers,
              tail \in Tails :
            sysfs = GkiRelease(major, minor, rest, n, tail)
            => /\ get_current_kmi = KmiOf(n, major, minor)
               /\ \A p \in Procs : InLoad(p) => frame[p].kmi = KmiOf(n, major, minor)
        /\ (sysfs # EmptyStr /\ ~HasMarker(sysfs)) => get_current_kmi = EmptyStr

\* "5.10.101-android12-9-ab1234" resolved to "android12-5.10" by a load that is
\* about to issue its syscall
C17_Witness ==
    \E p \in Procs :
        /\ read_kernel_release_from_sysfs = RelGki
        /\ pc[p] = "load_finit"
        /\ frame[p].kmi = Kmi12_510

Digits == {"0", "1", "2", "3", "4", "5", "6", "7", "8", "9"}

IsNumber(s) == Len(s) > 0 /\ \A i \in 1..Len(s) : s[i] \in Digits

\* k is android<N>-<major>.<minor> with N, major and minor numbers
IsKmiShape(k) ==
    \E i \in 1..Len(k), j \in 1..Len(k) :
        /\ i < j
        /\ k[i] = "-"
        /\ k[j] = "."
        /\ SubSeq(k, 1, Len(AndroidPrefix)) = AndroidPrefix
        /\ IsNumber(SubSeq(k, Len(AndroidPrefix) + 1, i - 1))
        /\ IsNumber(SubSeq(k, i + 1, j - 1))
        /\ IsNumber(SubSeq(k, j + 1, Len(k)))

\* C18 (KMI shape): whatever the kernel release, get_current_kmi() is the
\* empty string or of the form android<N>-<major>.<minor> with numeric N,
\* major and minor.
C18_KmiIsEmptyOrWellFormed ==
    get_current_kmi = EmptyStr \/ IsKmiShape(get_current_kmi)

\* the words of the image-not-found error
NoImageError == "no matching module found for"

\* a call of lkm_load() by p that did not find the module loaded has got past
\* its search for an image, on a device whose reported release has no dot and
\* that has no override
LoadedWithNoDot(p) ==
    /\ RanLoad(p)
    /\ ~obs[p].observed
    /\ pc[p] # "load_image"
    /\ read_kernel_release_from_sysfs # EmptyStr
    /\ NoDot(read_kernel_release_from_sysfs)
    /\ lkm_get_kmi_override = EmptyStr

\* the call has failed with the image-not-found error and issued no load
\* syscall
FailedImageNotFound(p) ==
    /\ Done(p)
    /\ obs[p].ret = "false"
    /\ HasWord(g_lkm_last_error[p], NoImageError)
    /\ obs[p].loadSyscalls = 0

\* C19 (no-dot release), as stated: with a release without '.' and no
\* override, lkm_load() fails with the image-not-found error and attempts no
\* load syscall.
C19_NoDotFailsImageNotFound ==
    \A p \in Procs :
        LoadedWithNoDot(p) => (get_current_kmi = EmptyStr /\ FailedImageNotFound(p))

\* C19, amended: the same when no image is installed at the legacy path.
C19_NoDotNoLegacyFailsImageNotFound ==
    \A p \in Procs :
        (LoadedWithNoDot(p) /\ ~legacyExists)
        => (get_current_kmi = EmptyStr /\ FailedImageNotFound(p))

\* a load on the release "unknown" that failed
C19_Witness ==
    \E p \in Procs :
        /\ LoadedWithNoDot(p)
        /\ read_kernel_release_from_sysfs = RelUnknown
        /\ ~legacyExists
        /\ FailedImageNotFound(p)

\* releases uname(2) may be made to report
UnameReleases == {RelGki, RelSpoof, RelLegacy, RelUnknown}

\* C20 (spoof-independent ABI resolution), as stated: whatever release
\* uname(2) is made to report, the KMI is the same.
C20_KmiIgnoresUname ==
    \A u \in UnameReleases :
        current_kmi(read_kernel_release_from_sysfs, u) = get_current_kmi

\* C20, amended: the same whenever /proc/sys/kernel/osrelease yields a
\* release; and a load in progress without override has resolved the KMI of
\* that release.
C20_KmiIgnoresUnameGivenSysfs ==
    read_kernel_release_from_sysfs # EmptyStr
    => /\ \A u \in UnameReleases :
            current_kmi(read_kernel_release_from_sysfs, u) = get_current_kmi
       /\ \A p \in Procs :
            InLoad(p) => frame[p].kmi = kmi_of_release(read_kernel_release_from_sysfs)

\* a load under a spoofed uname release that resolved the KMI of the true one
C20_Witness ==
    \E p \in Procs :
        /\ read_kernel_release_from_sysfs = RelGki
        /\ uts_release = RelSpoof
        /\ pc[p] = "load_finit"
        /\ frame[p].kmi = Kmi12_510
        /\ frame[p].kmi # kmi_of_release(uts_release)

\* the KMI lkm_load() is to use: the persisted override when it is not empty,
\* the detected KMI otherwise
ExpectedKmi ==
    IF lkm_get_kmi_override # EmptyStr THEN lkm_get_kmi_override ELSE get_current_kmi

\* C21 (override precedence): with a non-empty override persisted, lkm_load()
\* uses exactly that string as the KMI, whatever auto-detection would give;
\* the detected KMI is used only when the override is absent or empty.  The
\* KMI used is the one of the chosen image or, when no image is found, the one
\* named in the image-not-found error.
C21_OverrideWins ==
    \A p \in Procs :
        /\ InLoad(p) => frame[p].kmi = ExpectedKmi
        /\ (RanLoad(p) /\ Done(p) /\ HasWord(g_lkm_last_error[p], NoImageError))
           => g_lkm_last_error[p] = <<NoImageError, ExpectedKmi>>

\* the override names android13-5.15 on a kernel detected as android12-5.10,
\* and a load about to issue its syscall uses the override
C21_Witness ==
    \E p \in Procs :
        /\ pc[p] = "load_finit"
        /\ lkm_get_kmi_override = Kmi13_515
        /\ get_current_kmi = Kmi12_510
        /\ frame[p].kmi = Kmi13_515

\* C22 (override round-trip): once lkm_set_kmi_override(s) has returned
\* success, and until the process makes its next call, lkm_get_kmi_override()
\* returns exactly s, for every s, the empty string and strings with a newline
\* included.
C22_OverrideRoundTrip ==
    \A p \in Procs :
        (/\ obs[p].op = "lkm_set_kmi_override"
         /\ Done(p)
         /\ obs[p].ret = "true")
        => lkm_get_kmi_override = obs[p].arg

\* C23 (clear is idempotent): a call of lkm_clear_kmi_override() that finds no
\* override file returns success, and right after any call that returned
\* success lkm_get_kmi_override() returns the empty string.
C23_ClearIsIdempotent ==
    [][\A p \in Procs :
         (budget'[p] < budget[p] /\ obs'[p].op = "lkm_clear_kmi_override")
         => /\ overrideFile = NoFile => obs'[p].ret = "true"
            /\ obs'[p].ret = "true" => lkm_get_kmi_override' = EmptyStr]_vars

\* an override was set, cleared, and cleared again with success
C23_Witness ==
    \E p \in Procs :
        /\ obs[p].op = "lkm_clear_kmi_override"
        /\ obs[p].ret = "true"
        /\ obs[p].prevOp = "lkm_clear_kmi_override"
        /\ obs[p].prevRet = "true"
        /\ overrideFile = NoFile
        /\ budget[p] = MaxCalls - 3

\* C24 (autoload default): with no autoload file lkm_get_autoload() is true;
\* and when a process has disabled autoload with success and then cleared the
\* override file with success, lkm_get_autoload() is true again.
C24_AutoloadReturnsToDefault ==
    /\ autoloadFile = NoFile => lkm_get_autoload
    /\ \A p \in Procs :
        (/\ obs[p].op = "lkm_clear_kmi_override"
         /\ obs[p].ret = "true"
         /\ obs[p].prevOp = "lkm_set_autoload"
         /\ obs[p].prevArg = <<"0">>
         /\ obs[p].prevRet = "true")
        => lkm_get_autoload

\* C25 (boot autoload): lkm_autoload_post_fs_data() runs lkm_load() if and
\* only if the autoload policy reads enabled and the call did not observe the
\* module loaded; when it does not, it issues no load syscall and creates no
\* temp file.
C25_AutoloadOnlyWhenWanted ==
    \A p \in Procs :
        obs[p].op = "autoload"
        => /\ RanLoad(p) <=> (lkm_get_autoload /\ ~obs[p].observed)
           /\ ~RanLoad(p) => (obs[p].loadSyscalls = 0 /\ obs[p].tmpMade = {})

\* autoload is disabled and the module absent: the boot stage returned
\* without loading
C25_Witness ==
    \E p \in Procs :
        /\ obs[p].op = "autoload"
        /\ Done(p)
        /\ ~RanLoad(p)
        /\ ~lkm_get_autoload
        /\ ~modLoaded
        /\ tmpFiles = {}

\* C26 (syscall fallback): lkm_load() goes through load_module_via_init
\* exactly once when finit_module failed with ENOSYS and never after any other
\* outcome of finit_module; the fallback is given the image and the parameter
\* string of the finit_module attempt, issues init_module at most once, and
\* its result is the result of lkm_load().
C26_FallbackOnlyOnEnosys ==
    \A p \in Procs :
        RanLoad(p)
        => /\ obs[p].viaInit = (IF obs[p].finitResult = "ENOSYS" THEN 1 ELSE 0)
           /\ obs[p].initCalls <= obs[p].viaInit
           /\ pc[p] = "load_init" => (obs[p].viaInit = 1 /\ obs[p].initCalls = 0)
           /\ Cardinality(obs[p].images) <= 1
           /\ (Done(p) /\ obs[p].viaInit = 1)
              => obs[p].ret = BoolStr(/\ obs[p].initCalls = 1
                                      /\ obs[p].loadResult \in {"ok", "EEXIST"})

\* finit_module answered ENOSYS, init_module inserted the module and the load
\* returned true
C26_Witness ==
    \E p \in Procs :
        /\ RanLoad(p)
        /\ Done(p)
        /\ obs[p].finitResult = "ENOSYS"
        /\ obs[p].viaInit = 1
        /\ obs[p].initCalls = 1
        /\ obs[p].loadResult = "ok"
        /\ obs[p].ret = "true"
        /\ modLoaded

\* C27 (image fd ownership): a load holds at most one file descriptor on the
\* module image at any time, and none once lkm_load() has returned, whatever
\* the path: open failure, fstat, malloc or read failure, syscall success or
\* failure, ENOSYS fallback.
C27_ImageFdOwned ==
    \A p \in Procs :
        RanLoad(p)
        => /\ obs[p].fdPeak <= 1
           /\ obs[p].fdOpen <= 1
           /\ Done(p) => obs[p].fdOpen = 0

\* a load that fell back to init_module, whose image could not be read, has
\* returned with no fd open, having held one at a time
C27_Witness ==
    \E p \in Procs :
        /\ RanLoad(p)
        /\ Done(p)
        /\ obs[p].viaInit = 1
        /\ obs[p].initCalls = 0
        /\ obs[p].envFailure
        /\ obs[p].fdPeak = 1
        /\ obs[p].fdOpen = 0

\* the image paths a load of p may pass to the kernel: the legacy path and the
\* temp file it created
OwnImages(p) ==
    {<<LKM_KO, load_params>>} \cup {<<f, load_params>> : f \in obs[p].tmpMade}

\* a load uses the legacy path only when that file exists and no temp file of
\* the load holds an embedded image
LegacyOnlyAsFallback ==
    \A p \in Procs :
        /\ (InLoad(p) /\ frame[p].ko_path = LKM_KO)
           => (legacyExists /\ obs[p].tmpMade \cap tmpFiles = {})
        /\ RanLoad(p)
           => /\ obs[p].images \subseteq OwnImages(p)
              /\ <<LKM_KO, load_params>> \in obs[p].images => legacyExists

\* C28 (legacy image handling): lkm_load() takes the legacy path only when no
\* embedded image was materialized and the legacy file exists, and no step,
\* whatever the outcome of the load, removes the legacy file.
C28_LegacyImageKept ==
    [][legacyExists' = legacyExists /\ LegacyOnlyAsFallback']_vars

\* a temp file was made but the asset could not be copied; the load took the
\* legacy image, the kernel rejected it, and the legacy file is still there
C28_Witness ==
    \E p \in Procs :
        /\ RanLoad(p)
        /\ Done(p)
        /\ obs[p].tmpMade # {}
        /\ obs[p].images = {<<LKM_KO, load_params>>}
        /\ obs[p].loadResult = "ENOEXEC"
        /\ obs[p].ret = "false"
        /\ legacyExists
        /\ tmpFiles = {}

\* p is inside a call of lkm_unload()
InUnload(p) == obs[p].op = "lkm_unload" /\ Running(p)

\* C29 (unload terminates): a call of lkm_unload() makes at most 5
\* delete_module attempts, sleeps at most 6 times and runs rmmod at most once,
\* and, every syscall and the external tool returning, the call returns.
C29_UnloadTerminates ==
    /\ [](\A p \in Procs :
            obs[p].op = "lkm_unload"
            => /\ obs[p].deleteAttempts <= 5
               /\ frame[p].sleeps <= 6
               /\ obs[p].rmmodCalls <= 1)
    /\ \A p \in Procs : InUnload(p) ~> Done(p)

\* the unload waited after the quiescence steps, was refused five times with
\* errno left busy, slept after each refusal and is about to run rmmod
C29_Witness ==
    \E p \in Procs :
        /\ InUnload(p)
        /\ pc[p] = "unl_rmmod"
        /\ obs[p].deleteAttempts = 5
        /\ frame[p].sleeps = 6
        /\ obs[p].rmmodCalls = 0

\* the last error of p names the failure of clear_rules()
ClearFailureKept(p) == HasWord(g_lkm_last_error[p], ClearRulesError)

\* the quiescence steps of p follow one another whatever their outcome:
\* set_enabled(false), clear_rules(), release_connection(), the wait, the
\* delete_module attempts
QuiescenceGoesOn(p) ==
    /\ pc[p] = "unl_disable" => pc'[p] \in {"unl_disable", "unl_clear", "unl_delete"}
    /\ pc[p] = "unl_clear" => pc'[p] \in {"unl_clear", "unl_release"}
    /\ pc[p] = "unl_release" => pc'[p] \in {"unl_release", "unl_wait"}
    /\ pc[p] = "unl_wait" => pc'[p] \in {"unl_wait", "unl_delete"}

\* clear_rules() has just failed in p
ClearJustFailed(p) ==
    pc[p] = "unl_clear" /\ pc'[p] = "unl_release" /\ obs'[p].errSet

AfterUnload(p) == obs[p].op = "lkm_unload" /\ pc[p] = "idle"

\* C31 (external-tool escalation): a call of lkm_unload() runs rmmod at most
\* once, and it has run it exactly when it observed the module loaded and none
\* of its delete_module attempts succeeded, whether the loop ran its five turns
\* or was left after one error that is not busy.
C31_RmmodExactlyOnFailure ==
    \A p \in Procs :
        /\ obs[p].op = "lkm_unload" => obs[p].rmmodCalls <= 1
        /\ AfterUnload(p)
           => (obs[p].rmmodCalls = 1
               <=> (obs[p].observed /\ obs[p].lastDelete # "ok"))
        /\ pc[p] = "unl_rmmod"
           => (obs[p].deleteAttempts >= 1 /\ obs[p].lastDelete # "ok")

\* the first delete_module was refused with EPERM, the loop was left at once,
\* and rmmod removed the module
C31_Witness ==
    \E p \in Procs :
        /\ AfterUnload(p)
        /\ obs[p].deleteAttempts = 1
        /\ obs[p].lastDelete = "EPERM"
        /\ obs[p].rmmodCalls = 1
        /\ obs[p].ret = "true"
        /\ ~modLoaded

\* C32 (success implies clean last-error): whenever lkm_load() or lkm_unload()
\* has returned success, the last error of the process is empty.
C32_SuccessHasNoLastError ==
    \A p \in Procs :
        (/\ obs[p].op \in {"lkm_load", "lkm_unload"}
         /\ Done(p)
         /\ obs[p].ret = "true")
        => g_lkm_last_error[p] = << >>

\* the retry decision of line 337 agrees with the error delete_module gave:
\* another attempt follows a busy error only, and the loop is left before its
\* last turn after an error that is not busy only
RetryFollowsSyscallError(p) ==
    /\ (pc[p] = "unl_delete" /\ obs[p].deleteAttempts >= 1)
       => is_transient_busy(obs[p].lastDelete)
    /\ (pc[p] = "unl_rmmod" /\ obs[p].deleteAttempts < UNLOAD_ATTEMPTS)
       => ~is_transient_busy(obs[p].lastDelete)

\* the decisions of the load helpers agree with the error of their syscall:
\* init_module is tried exactly after ENOSYS, and EEXIST counts as loaded
LoadFollowsSyscallError(p) ==
    /\ obs[p].viaInit = (IF obs[p].finitResult = "ENOSYS" THEN 1 ELSE 0)
    /\ (Done(p) /\ obs[p].loadResult = "EEXIST") => obs[p].ret = "true"

\* C33 (error-code provenance): every decision taken on an OS error code, the
\* retry on EAGAIN/EBUSY in lkm_unload and the ENOSYS fallback and
\* EEXIST-as-success of the load helpers, follows the error code the module
\* syscall produced.
C33_DecisionsUseSyscallErrno ==
    \A p \in Procs :
        /\ obs[p].op = "lkm_unload" => RetryFollowsSyscallError(p)
        /\ RanLoad(p) => LoadFollowsSyscallError(p)

\* this step is one of the lkm_unload() call of p that is under way
UnloadStepOf(p) == InUnload(p) /\ (obs'[p] # obs[p] \/ pc'[p] # pc[p])

\* p is past the release_connection() of line 329
PastRelease(p) == pc[p] \in {"unl_wait", "unl_delete", "unl_rmmod"}

\* C34 (quiescence side effects are not rolled back): no step of a
\* lkm_unload() that found the module loaded switches the hooks on again or
\* brings rules back, and from release_connection() on, up to and including
\* the return with success or failure, the process holds no session.
C34_QuiescenceNotRolledBack ==
    [][\A p \in Procs :
          UnloadStepOf(p)
          => /\ hooksEnabled' => hooksEnabled
             /\ rules' => rules
             /\ PastRelease(p) => ~session_fd'[p]
             /\ pc'[p] = "idle" => ~session_fd'[p]]_vars

\* an unload that went through the quiescence sequence and failed: the module
\* is still loaded, its hooks are off, its rules are gone and the process has
\* no session
C34_Witness ==
    \E p \in Procs :
        /\ AfterUnload(p)
        /\ obs[p].observed
        /\ obs[p].ret = "false"
        /\ Len(obs[p].steps) > Len(Quiescence)
        /\ modLoaded
        /\ ~hooksEnabled
        /\ ~rules
        /\ ~session_fd[p]

\* the paths of the images the load helpers of p's call were given
ImagePaths(p) == {im[1] : im \in obs[p].images}

\* C35 (single image per load): a call of lkm_load() hands one image at most
\* to the load helpers, exactly one once a load syscall was made; when that
\* image is an extracted one and its load fails, the legacy image is not tried
\* in the call and lkm_load() returns false.
C35_SingleImagePerLoad ==
    \A p \in Procs :
        RanLoad(p)
        => /\ Cardinality(ImagePaths(p)) <= 1
           /\ obs[p].loadSyscalls >= 1 => Cardinality(ImagePaths(p)) = 1
           /\ (/\ Done(p)
               /\ ImagePaths(p) # {}
               /\ LKM_KO \notin ImagePaths(p)
               /\ obs[p].loadResult \notin {"ok", "EEXIST"})
              => obs[p].ret = "false"

\* the extracted image was refused by the kernel while the legacy image was
\* there: the call returned false and the module is not loaded
C35_Witness ==
    \E p \in Procs :
        /\ RanLoad(p)
        /\ Done(p)
        /\ obs[p].tmpMade # {}
        /\ Cardinality(ImagePaths(p)) = 1
        /\ LKM_KO \notin ImagePaths(p)
        /\ obs[p].loadResult = "ENOEXEC"
        /\ legacyExists
        /\ obs[p].ret = "false"
        /\ ~modLoaded

\* this step is a whole call of one of the operations of names
CallOf(names) ==
    \E p \in Procs : budget'[p] < budget[p] /\ obs'[p].op \in names

\* C36 (policy frame): the ABI-override file is created, changed or removed
\* by calls of lkm_set_kmi_override and lkm_clear_kmi_override only, and the
\* autoload file by calls of lkm_set_autoload only; no step of lkm_load(),
\* lkm_unload(), lkm_is_loaded() or lkm_autoload_post_fs_data() changes
\* either.
C36_PolicyFrame ==
    [][/\ overrideFile' # overrideFile
          => CallOf({"lkm_set_kmi_override", "lkm_clear_kmi_override"})
       /\ autoloadFile' # autoloadFile
          => CallOf({"lkm_set_autoload"})]_vars

\* both files were written and a lkm_load() that came after lkm_set_autoload
\* has returned with both as they were written
C36_Witness ==
    \E p \in Procs :
        /\ RanLoad(p)
        /\ Done(p)
        /\ obs[p].prevOp = "lkm_set_autoload"
        /\ autoloadFile = <<"0">>
        /\ overrideFile = <<"a", "\n", "b">>

\* the first lines of LKM_AUTOLOAD_FILE that read as enabled
EnabledLines == {EmptyStr, <<"1">>, <<"o", "n">>, <<"t", "r", "u", "e">>}

\* C37 (autoload round-trip): right after a call lkm_set_autoload(b) that
\* returned success lkm_get_autoload() returns b, for both b; and
\* lkm_get_autoload() is true exactly when the autoload file is missing or its
\* first line is empty, "1", "on" or "true".
C37_AutoloadRoundTrip ==
    [][/\ \A p \in Procs :
            (/\ budget'[p] < budget[p]
             /\ obs'[p].op = "lkm_set_autoload"
             /\ obs'[p].ret = "true")
            => (lkm_get_autoload' <=> obs'[p].arg = <<"1">>)
       /\ lkm_get_autoload'
          <=> (autoloadFile' = NoFile \/ FirstLine(autoloadFile') \in EnabledLines)]_vars

\* the status outputs that say loaded = false: a JSON object whose "loaded"
\* is the boolean false, or a string spelling it
ReportsUnloaded == {StatusUnloaded, StatusUnloadedMore, StatusUnloadedAsString}

\* the status outputs that are a JSON object without the key "loaded"
OmitsLoaded == {StatusNoKey, StatusEmptyObject}

\* C38 (manager-side unload verification): unloadLkm() returns true if and
\* only if the unload command succeeded, or it failed and the status command
\* then succeeded with an output that says loaded = false; when the status
\* command fails, or its output has no "loaded" key, a failed unload is
\* returned as false.
C38_UnloadVerifiedByStatus ==
    manager.pc = "returned"
    => /\ manager.ret
          <=> \/ manager.unload = "success"
              \/ /\ manager.unload = "failure"
                 /\ manager.status = "success"
                 /\ manager.out \in ReportsUnloaded
       /\ (/\ manager.unload # "success"
           /\ manager.status # "success" \/ manager.out \in OmitsLoaded)
          => ~manager.ret

\* the unload command failed, the status command printed {"loaded": false},
\* and unloadLkm() returned true
C38_Witness ==
    /\ manager.pc = "returned"
    /\ manager.unload = "failure"
    /\ manager.status = "success"
    /\ manager.out = StatusUnloaded
    /\ manager.ret

\* C39 (whole image before init_module): when load_module_via_init has called
\* init_module, all st_size units of the image had been read into the buffer;
\* a read that met the end of the file before that does not lead to the call.
C39_WholeImageBeforeInitModule ==
    helper.called => helper.filled = helper.size

=============================================================================
